---- MODULE Spec2Model ----
(***************************************************************************)
(* The command interpreter (CI) of the tcspecial repository and the data   *)
(* handler registry it drives.  The repository holds two CI crates:        *)
(*   tcsspecial  src/tcsspecial/src/ci.rs + dh.rs  (DHManager, ErrorCode)  *)
(*   tcspecial   src/tcspecial/src/ci.rs  + dh.rs  (BTreeMap, CommandStatus)*)
(* The variable impl says which of the two binaries is running.  Time is   *)
(* counted in whole seconds; beacon intervals are in milliseconds as in    *)
(* BeaconTime.                                                             *)
(***************************************************************************)
EXTENDS Integers, Sequences, FiniteSets, TLC

\* ---------------------------------------------------------------- bounds
\* Last instant (seconds) the clock is advanced to.
MaxTime == 61
\* max_data_handlers the DHManager is constructed with (DHManager::new).
MaxHandlers == 1

\* ------------------------------------------------------ program constants
ARM_WINDOW_SECS == 60
RESTART_ARM_TIMEOUT == 60
BEACON_DEFAULT == 10000

\* ----------------------------------------------------------------- inputs
Impls == {"tcsspecial", "tcspecial"}
\* Amounts of time (seconds) that pass between two steps of the CI.
TickSteps == {30, 31}
Seqs == {1, 2}
ArmKeys == {1, 2}
DHIds == {0, 1}
Addrs == {"oc1", "oc2"}
\* The (DHType, DHName) pairs of StartDH commands; a DHName is split at ':'
\* as connect_network_payload splits it.
DHKinds == {[dh_type |-> "Network", name |-> <<"127.0.0.1", "5003">>],
            [dh_type |-> "Network", name |-> <<"payload0">>],
            [dh_type |-> "Device", name |-> <<"payload0">>]}
\* Option<BeaconTime> of a Config command: <<>> is None, <<ms>> is Some(ms).
BeaconOpts == {<<>>, <<0>>, <<30000>>}

None == <<>>
Some(x) == <<x>>
IsSome(o) == o # <<>>
Unwrap(o) == o[1]

\* What the ground station does in one pass: a restart / configuration pass
\* (Ping, RestartArm, Restart, Config, with time passing) or a data handler
\* pass (StartDH, StopDH, QueryDH, ConfigDH).
Traffics == {"restart", "dh"}

\* The Command values of src/tcslibgs/src/commands.rs that are sent to
\* crate i during a pass tr.
Commands(i, tr) ==
  IF tr = "restart"
    THEN      [type : {"Ping"}, seq : Seqs]
         \cup [type : {"RestartArm", "Restart"}, seq : Seqs, arm_key : ArmKeys]
         \cup [type : {"Config"}, seq : Seqs,
               beacon_interval : IF i = "tcsspecial" THEN BeaconOpts
                                 ELSE BeaconOpts \ {None}]
    ELSE      {[type |-> "StartDH", seq |-> s, dh_id |-> i2, dh_type |-> k.dh_type,
                name |-> k.name] : s \in Seqs, i2 \in DHIds, k \in DHKinds}
         \cup [type : {"StopDH", "QueryDH", "ConfigDH"}, seq : Seqs, dh_id : DHIds]

\* What a receive on the command socket can yield: the encoding of a
\* command, the encoding of a telemetry message, a zero-length datagram,
\* bytes that are no message, a timeout (WouldBlock / TimedOut) or an I/O
\* error of the socket.
Datagrams(i, tr) ==
       [kind : {"cmd"}, cmd : Commands(i, tr)]
  \cup [kind : {"tlm", "empty", "garbage", "timeout", "ioerr"}]

VARIABLES
  impl,                    \* which CI crate runs
  traffic,                 \* which pass the ground station makes
  pc,                      \* "new", "loop" (at the while test of run), "recv" (in an iteration, at recv_from),
                           \* "done" (run returned Ok), "failed" (run returned Err)
  now,                     \* the clock (Instant::now), seconds
  running,                 \* CommandInterpreter.running
  arm_state,               \* Option<(ArmKey, Instant)>; arm_key / arm_time in tcspecial
  handlers,                \* the registry: DHId -> DataHandler
  dh_configs,              \* tcspecial: ids that have a DHConfig
  beacon_interval,         \* CommandInterpreter.beacon_interval (ms)
  config_beacon_interval,  \* tcsspecial: config.beacon_interval (ms)
  last_beacon,             \* tcsspecial: last_beacon
  io,                      \* what the step just taken received and sent
  hArmedAt,                \* history: instant of the last RestartArm answered since the last Restart
                           \* answered Success or ArmWindowExpired, if there is one
  hSinceAny,               \* history: a RestartArm was answered since the last Restart answered at all
  hRearmed,                \* history: the RestartArm of hArmedAt replaced an earlier one
  bsend,                   \* the BeaconSend object and its worker thread (beacon_send.rs)
  cdt,                     \* the two Conduits of a data handler, their threads and
                           \* the thread that stops them (conduit.rs)
  fdt,                     \* the descriptor table of the process and the descriptors
                           \* the DataHandlers of tcsspecial hold (dh.rs)
  codec,                   \* a value of tcslibgs on its way through its encoding
  mgr,                     \* the DHManager of tcsspecial, its mutex and its callers
  sdh,                     \* a DataHandler with the counters of its two relays
  gcl                      \* a ground client, its socket and the link

\* The state of the command interpreter and of its registry.
civars == <<impl, traffic, pc, now, running, arm_state, handlers, dh_configs,
            beacon_interval, config_beacon_interval, last_beacon, io,
            hArmedAt, hSinceAny, hRearmed>>

\* The state of the objects that are exercised by themselves.
auxvars == <<bsend, cdt, fdt, codec, mgr, sdh, gcl>>

vars == <<civars, auxvars>>

\* An object that has not been constructed.
NotBuilt == [built |-> FALSE]

AuxInit ==
  /\ bsend = NotBuilt
  /\ cdt = NotBuilt
  /\ fdt = NotBuilt
  /\ codec = NotBuilt
  /\ mgr = NotBuilt
  /\ sdh = NotBuilt
  /\ gcl = NotBuilt

NoDatagram == [kind |-> "none"]
NoIO == [dgram |-> NoDatagram, src |-> "-", sent |-> <<>>, beacon |-> FALSE]

\* -------------------------------------------------------------- TcsError
ErrCommand(code) == [kind |-> "Command", code |-> code]
ErrKind(k) == [kind |-> k, code |-> "-"]
NoErr == ErrKind("Ok")

\* TcsError::to_error_code
to_error_code(e) ==
  CASE e.kind = "Io" -> "IoError"
    [] e.kind = "Serialization" -> "InvalidCommand"
    [] e.kind = "Protocol" -> "InvalidCommand"
    [] e.kind = "DataHandler" -> "DHNotFound"
    [] e.kind = "Command" -> e.code
    [] e.kind = "Configuration" -> "InvalidConfiguration"
    [] e.kind = "ResourceAllocation" -> "ResourceAllocationFailed"
    [] e.kind = "Timeout" -> "IoError"
    [] e.kind = "ConnectionClosed" -> "IoError"
    [] e.kind = "InvalidState" -> "Unknown"

\* A telemetry reply: variant, echoed sequence number, status ("Success" or
\* the ErrorCode / CommandStatus of a failure).
Tlm(type, seq, status) == [type |-> type, seq |-> seq, status |-> status]

\* ------------------------------------------- tcsspecial: DataHandler (dh.rs)
\* What the operating system answers during one command: whether pipe(),
\* the OC socket setup, the payload connect/open, the two thread joins and
\* the reply's send_to succeed.
EnvOk == [pipe_ok |-> TRUE, oc_ok |-> TRUE, payload_ok |-> TRUE,
          join_g2p_ok |-> TRUE, join_p2g_ok |-> TRUE, send_ok |-> TRUE]
\* At most one of the steps of a StartDH fails, at most one join of a stop.
StartEnvs == {EnvOk, [EnvOk EXCEPT !.pipe_ok = FALSE],
              [EnvOk EXCEPT !.oc_ok = FALSE], [EnvOk EXCEPT !.payload_ok = FALSE]}
StopEnvs == {EnvOk, [EnvOk EXCEPT !.join_g2p_ok = FALSE],
             [EnvOk EXCEPT !.join_p2g_ok = FALSE]}
WithSendFailure(E) == E \cup {[e EXCEPT !.send_ok = FALSE] : e \in E}

\* DHConfig::datagram / DHConfig::stream
DHConfig_datagram == [is_stream |-> FALSE, stream_delay_ms |-> None]
DHConfig_stream == [is_stream |-> TRUE, stream_delay_ms |-> Some(10)]

\* DataHandler::new
DataHandler_new(dh_type, name, config) ==
  [dh_type |-> dh_type, name |-> name, state |-> "Created", config |-> config,
   ground_to_payload |-> "None", payload_to_ground |-> "None",
   oc_socket |-> "None", payload_fd |-> "None", cmd_pipe |-> "None"]

\* DataHandler::initialize: allocate the command pipe.
initialize(dh, env) ==
  IF ~env.pipe_ok
    THEN [err |-> ErrKind("ResourceAllocation"), dh |-> dh]
    ELSE [err |-> NoErr, dh |-> [dh EXCEPT !.cmd_pipe = "Open"]]

\* Strings that parse as a u16 port, and hosts that parse into a SocketAddr.
PortStrings == {"5003"}
IpLiterals == {"127.0.0.1"}

\* DataHandler::connect_network_payload: the error it returns, if any.
connect_network_payload(dh, env) ==
  LET parts == dh.name
      protocol == IF Len(parts) > 2 THEN parts[3]
                  ELSE IF dh.config.is_stream THEN "tcp" ELSE "udp"
  IN  IF Len(parts) < 2 THEN ErrKind("Configuration")
      ELSE IF parts[2] \notin PortStrings THEN ErrKind("Configuration")
      ELSE IF parts[1] \notin IpLiterals THEN ErrKind("Configuration")
      ELSE IF protocol \notin {"tcp", "udp"} THEN ErrKind("Configuration")
      ELSE IF ~env.payload_ok THEN ErrKind("Io")
      ELSE NoErr

\* DataHandler::open_device_payload: the error it returns, if any.
open_device_payload(dh, env) ==
  IF ~env.payload_ok THEN ErrKind("Io") ELSE NoErr

\* activate without the test of the state.
activate_any_state(dh, env) ==
  IF ~env.oc_ok THEN [err |-> ErrKind("Io"), dh |-> dh]
  ELSE
    LET d1 == [dh EXCEPT !.oc_socket = "Some"]
        perr == IF dh.dh_type = "Network" THEN connect_network_payload(d1, env)
                ELSE open_device_payload(d1, env)
    IN  IF perr # NoErr THEN [err |-> perr, dh |-> d1]
        ELSE [err |-> NoErr,
              dh |-> [d1 EXCEPT !.payload_fd = "Some",
                                !.ground_to_payload = "Some",
                                !.payload_to_ground = "Some",
                                !.state = "Active",
                                !.cmd_pipe = IF @ = "Open" THEN "ReadClosed" ELSE @]]

\* DataHandler::activate
activate(dh, env) ==
  IF dh.state # "Created" THEN [err |-> ErrKind("InvalidState"), dh |-> dh]
  ELSE IF ~env.oc_ok THEN [err |-> ErrKind("Io"), dh |-> dh]
  ELSE
    LET d1 == [dh EXCEPT !.oc_socket = "Some"]
        perr == IF dh.dh_type = "Network" THEN connect_network_payload(d1, env)
                ELSE open_device_payload(d1, env)
    IN  IF perr # NoErr THEN [err |-> perr, dh |-> d1]
        ELSE [err |-> NoErr,
              dh |-> [d1 EXCEPT !.payload_fd = "Some",
                                !.ground_to_payload = "Some",
                                !.payload_to_ground = "Some",
                                !.state = "Active",
                                !.cmd_pipe = IF @ = "Open" THEN "ReadClosed" ELSE @]]

\* DataHandler::stop.  Relay::stop fails when the join of its thread fails.
stop(dh, env) ==
  IF dh.state = "Stopped" THEN [err |-> NoErr, dh |-> dh]
  ELSE
    LET d1 == [dh EXCEPT !.ground_to_payload = "None"]
        d2 == [d1 EXCEPT !.payload_to_ground = "None"]
    IN  IF dh.ground_to_payload = "Some" /\ ~env.join_g2p_ok
          THEN [err |-> ErrKind("InvalidState"), dh |-> d1]
        ELSE IF dh.payload_to_ground = "Some" /\ ~env.join_p2g_ok
          THEN [err |-> ErrKind("InvalidState"), dh |-> d2]
        ELSE [err |-> NoErr,
              dh |-> [d2 EXCEPT !.payload_fd = "None", !.cmd_pipe = "None",
                                !.state = "Stopped"]]

\* DataHandler::get_stats: which relays' statistics are merged into the
\* handler's own.
get_stats(dh) ==
  [g2p_merged |-> dh.ground_to_payload # "None",
   p2g_merged |-> dh.payload_to_ground # "None"]

\* The system calls Relay::stop makes for a relay r of dh: a write to the
\* command pipe when the relay was given its write end, then the join.
relay_stop_syscalls(dh, r) ==
  IF r = "None" THEN <<>>
  ELSE (IF dh.cmd_pipe # "None" THEN <<"write_pipe">> ELSE <<>>) \o <<"join">>

\* The system calls DataHandler::stop makes.
stop_syscalls(dh, env) ==
  IF dh.state = "Stopped" THEN <<>>
  ELSE IF dh.ground_to_payload = "Some" /\ ~env.join_g2p_ok
    THEN relay_stop_syscalls(dh, dh.ground_to_payload)
  ELSE IF dh.payload_to_ground = "Some" /\ ~env.join_p2g_ok
    THEN relay_stop_syscalls(dh, dh.ground_to_payload)
           \o relay_stop_syscalls(dh, dh.payload_to_ground)
  ELSE relay_stop_syscalls(dh, dh.ground_to_payload)
         \o relay_stop_syscalls(dh, dh.payload_to_ground)
         \o (IF dh.payload_fd # "None" THEN <<"close_payload">> ELSE <<>>)
         \o (IF dh.cmd_pipe # "None" THEN <<"close_pipe_write">> ELSE <<>>)

\* ---------------------------------------------- tcsspecial: DHManager (dh.rs)
EmptyMap == [i \in {} |-> 0]
MapPut(m, k, v) == [i \in DOMAIN m \cup {k} |-> IF i = k THEN v ELSE m[i]]

\* create_dh without the contains_key test: the new handler replaces the
\* registered one.
create_dh_replaces(hs, id, dh_type, name, config, env) ==
  IF id \notin DOMAIN hs /\ Cardinality(DOMAIN hs) >= MaxHandlers
    THEN [err |-> ErrKind("ResourceAllocation"), handlers |-> hs]
  ELSE
    LET r == initialize(DataHandler_new(dh_type, name, config), env)
    IN  IF r.err # NoErr THEN [err |-> r.err, handlers |-> hs]
        ELSE [err |-> NoErr, handlers |-> MapPut(hs, id, r.dh)]

\* create_dh that refuses only when the registry is over its limit.
create_dh_off_by_one(hs, id, dh_type, name, config, env) ==
  IF id \in DOMAIN hs
    THEN [err |-> ErrCommand("DHAlreadyExists"), handlers |-> hs]
  ELSE IF Cardinality(DOMAIN hs) > MaxHandlers
    THEN [err |-> ErrKind("ResourceAllocation"), handlers |-> hs]
  ELSE
    LET r == initialize(DataHandler_new(dh_type, name, config), env)
    IN  IF r.err # NoErr THEN [err |-> r.err, handlers |-> hs]
        ELSE [err |-> NoErr, handlers |-> MapPut(hs, id, r.dh)]

\* DHManager::create_dh
create_dh(hs, id, dh_type, name, config, env) ==
  IF id \in DOMAIN hs
    THEN [err |-> ErrCommand("DHAlreadyExists"), handlers |-> hs]
  ELSE IF Cardinality(DOMAIN hs) >= MaxHandlers
    THEN [err |-> ErrKind("ResourceAllocation"), handlers |-> hs]
  ELSE
    LET r == initialize(DataHandler_new(dh_type, name, config), env)
    IN  IF r.err # NoErr THEN [err |-> r.err, handlers |-> hs]
        ELSE [err |-> NoErr, handlers |-> MapPut(hs, id, r.dh)]

\* DHManager::activate_dh
activate_dh(hs, id, env) ==
  IF id \notin DOMAIN hs
    THEN [err |-> ErrCommand("DHNotFound"), handlers |-> hs]
    ELSE LET r == activate(hs[id], env)
         IN  [err |-> r.err, handlers |-> [hs EXCEPT ![id] = r.dh]]

\* stop_dh that takes the stopped handler out of the registry.
stop_dh_removes(hs, id, env) ==
  IF id \notin DOMAIN hs
    THEN [err |-> ErrCommand("DHNotFound"), handlers |-> hs]
    ELSE LET r == stop(hs[id], env)
         IN  [err |-> r.err,
              handlers |-> IF r.err = NoErr
                             THEN [k \in DOMAIN hs \ {id} |-> hs[k]]
                             ELSE [hs EXCEPT ![id] = r.dh]]

\* stop_dh that treats an absent id as stopped.
stop_dh_ok_for_absent(hs, id, env) ==
  IF id \notin DOMAIN hs
    THEN [err |-> NoErr, handlers |-> hs]
    ELSE LET r == stop(hs[id], env)
         IN  [err |-> r.err, handlers |-> [hs EXCEPT ![id] = r.dh]]

\* DHManager::stop_dh
stop_dh(hs, id, env) ==
  IF id \notin DOMAIN hs
    THEN [err |-> ErrCommand("DHNotFound"), handlers |-> hs]
    ELSE LET r == stop(hs[id], env)
         IN  [err |-> r.err, handlers |-> [hs EXCEPT ![id] = r.dh]]

\* get_dh_stats that knows only handlers that were activated.
get_dh_stats_activated_only(hs, id) ==
  IF id \notin DOMAIN hs \/ hs[id].state = "Created"
    THEN ErrCommand("DHNotFound") ELSE NoErr

\* DHManager::get_dh_stats: the error it returns, if any.
get_dh_stats(hs, id) ==
  IF id \notin DOMAIN hs THEN ErrCommand("DHNotFound") ELSE NoErr

\* DHManager::stop_all: stop every handler, ignoring the results.
stop_all(hs, env) == [i \in DOMAIN hs |-> stop(hs[i], env).dh]

\* ------------------------------------ tcsspecial: CommandInterpreter (ci.rs)
\* The fields of the CommandInterpreter a command handler reads or writes.
Self == [arm_state |-> arm_state, running |-> running, handlers |-> handlers,
         beacon_interval |-> beacon_interval,
         config_beacon_interval |-> config_beacon_interval]

Armed(key, at) == Some([key |-> key, at |-> at])

\* CommandInterpreter::handle_ping
handle_ping(self, cmd) ==
  [self |-> self, tlm |-> Tlm("Ping", cmd.seq, "Success")]

\* handle_restart_arm that keeps the instant of an arming already present.
handle_restart_arm_keeps_window(self, cmd, t) ==
  [self |-> [self EXCEPT !.arm_state =
               IF IsSome(@) THEN Armed(cmd.arm_key, Unwrap(@).at)
               ELSE Armed(cmd.arm_key, t)],
   tlm |-> Tlm("RestartArm", cmd.seq, "Success")]

\* CommandInterpreter::handle_restart_arm
handle_restart_arm(self, cmd, t) ==
  [self |-> [self EXCEPT !.arm_state = Armed(cmd.arm_key, t)],
   tlm |-> Tlm("RestartArm", cmd.seq, "Success")]

\* handle_restart that disarms on a key mismatch.
handle_restart_mismatch_disarms(self, cmd, t) ==
  IF IsSome(self.arm_state)
    THEN IF t - Unwrap(self.arm_state).at > ARM_WINDOW_SECS
           THEN [self |-> [self EXCEPT !.arm_state = None],
                 tlm |-> Tlm("Restart", cmd.seq, "ArmWindowExpired")]
         ELSE IF Unwrap(self.arm_state).key # cmd.arm_key
           THEN [self |-> [self EXCEPT !.arm_state = None],
                 tlm |-> Tlm("Restart", cmd.seq, "InvalidArmKey")]
         ELSE [self |-> [self EXCEPT !.arm_state = None, !.running = FALSE],
               tlm |-> Tlm("Restart", cmd.seq, "Success")]
    ELSE [self |-> self, tlm |-> Tlm("Restart", cmd.seq, "RestartNotArmed")]

\* handle_restart that compares the key before it tests the window.
handle_restart_key_first(self, cmd, t) ==
  IF IsSome(self.arm_state)
    THEN IF Unwrap(self.arm_state).key # cmd.arm_key
           THEN [self |-> self,
                 tlm |-> Tlm("Restart", cmd.seq, "InvalidArmKey")]
         ELSE IF t - Unwrap(self.arm_state).at > ARM_WINDOW_SECS
           THEN [self |-> [self EXCEPT !.arm_state = None],
                 tlm |-> Tlm("Restart", cmd.seq, "ArmWindowExpired")]
         ELSE [self |-> [self EXCEPT !.arm_state = None, !.running = FALSE],
               tlm |-> Tlm("Restart", cmd.seq, "Success")]
    ELSE [self |-> self, tlm |-> Tlm("Restart", cmd.seq, "RestartNotArmed")]

\* handle_restart that answers an unarmed Restart with InvalidArmKey.
handle_restart_unarmed_key_error(self, cmd, t) ==
  IF IsSome(self.arm_state)
    THEN IF t - Unwrap(self.arm_state).at > ARM_WINDOW_SECS
           THEN [self |-> [self EXCEPT !.arm_state = None],
                 tlm |-> Tlm("Restart", cmd.seq, "ArmWindowExpired")]
         ELSE IF Unwrap(self.arm_state).key # cmd.arm_key
           THEN [self |-> self,
                 tlm |-> Tlm("Restart", cmd.seq, "InvalidArmKey")]
         ELSE [self |-> [self EXCEPT !.arm_state = None, !.running = FALSE],
               tlm |-> Tlm("Restart", cmd.seq, "Success")]
    ELSE [self |-> self, tlm |-> Tlm("Restart", cmd.seq, "InvalidArmKey")]

\* handle_restart that reports an expired window without disarming.
handle_restart_expiry_keeps_arm(self, cmd, t) ==
  IF IsSome(self.arm_state)
    THEN IF t - Unwrap(self.arm_state).at > ARM_WINDOW_SECS
           THEN [self |-> self,
                 tlm |-> Tlm("Restart", cmd.seq, "ArmWindowExpired")]
         ELSE IF Unwrap(self.arm_state).key # cmd.arm_key
           THEN [self |-> self,
                 tlm |-> Tlm("Restart", cmd.seq, "InvalidArmKey")]
         ELSE [self |-> [self EXCEPT !.arm_state = None, !.running = FALSE],
               tlm |-> Tlm("Restart", cmd.seq, "Success")]
    ELSE [self |-> self, tlm |-> Tlm("Restart", cmd.seq, "RestartNotArmed")]

\* CommandInterpreter::handle_restart
handle_restart(self, cmd, t) ==
  IF IsSome(self.arm_state)
    THEN LET stored_key == Unwrap(self.arm_state).key
             arm_time == Unwrap(self.arm_state).at
         IN  IF t - arm_time > ARM_WINDOW_SECS
               THEN [self |-> [self EXCEPT !.arm_state = None],
                     tlm |-> Tlm("Restart", cmd.seq, "ArmWindowExpired")]
             ELSE IF stored_key # cmd.arm_key
               THEN [self |-> self,
                     tlm |-> Tlm("Restart", cmd.seq, "InvalidArmKey")]
             ELSE [self |-> [self EXCEPT !.arm_state = None, !.running = FALSE],
                   tlm |-> Tlm("Restart", cmd.seq, "Success")]
    ELSE [self |-> self, tlm |-> Tlm("Restart", cmd.seq, "RestartNotArmed")]

\* CommandInterpreter::handle_start_dh
handle_start_dh(self, cmd, src_addr, env) ==
  LET config == IF cmd.dh_type = "Network" THEN DHConfig_datagram
                ELSE DHConfig_stream
      c == create_dh(self.handlers, cmd.dh_id, cmd.dh_type, cmd.name, config, env)
      a == activate_dh(c.handlers, cmd.dh_id, env)
  IN  IF c.err # NoErr
        THEN [self |-> self,
              tlm |-> Tlm("StartDH", cmd.seq, to_error_code(c.err))]
      ELSE IF a.err # NoErr
        THEN [self |-> [self EXCEPT !.handlers = a.handlers],
              tlm |-> Tlm("StartDH", cmd.seq, to_error_code(a.err))]
      ELSE [self |-> [self EXCEPT !.handlers = a.handlers],
            tlm |-> Tlm("StartDH", cmd.seq, "Success")]

\* handle_stop_dh that reports every error of stop_dh.
handle_stop_dh_reports_not_found(self, cmd, env) ==
  LET r == stop_dh(self.handlers, cmd.dh_id, env)
  IN  [self |-> [self EXCEPT !.handlers = r.handlers],
       tlm |-> IF r.err = NoErr
                 THEN Tlm("StopDH", cmd.seq, "Success")
                 ELSE Tlm("StopDH", cmd.seq, to_error_code(r.err))]

\* CommandInterpreter::handle_stop_dh
handle_stop_dh(self, cmd, env) ==
  LET r == stop_dh(self.handlers, cmd.dh_id, env)
  IN  [self |-> [self EXCEPT !.handlers = r.handlers],
       tlm |-> IF r.err = NoErr \/ r.err.kind = "Command"
                 THEN Tlm("StopDH", cmd.seq, "Success")
                 ELSE Tlm("StopDH", cmd.seq, to_error_code(r.err))]

\* The QueryDH telemetry: success(seq, stats) carries the statistics of the
\* handler, failure(seq, code) is given none.
QueryTlm(seq, status, stats) ==
  [type |-> "QueryDH", seq |-> seq, status |-> status, stats |-> stats]

\* handle_query_dh whose failure reply is built as a StopDH telemetry.
handle_query_dh_wrong_variant(self, cmd) ==
  LET e == get_dh_stats(self.handlers, cmd.dh_id)
  IN  [self |-> self,
       tlm |-> IF e = NoErr
                 THEN QueryTlm(cmd.seq, "Success",
                               Some(get_stats(self.handlers[cmd.dh_id])))
                 ELSE [QueryTlm(cmd.seq, to_error_code(e), None)
                         EXCEPT !.type = "StopDH"]]

\* CommandInterpreter::handle_query_dh
handle_query_dh(self, cmd) ==
  LET e == get_dh_stats(self.handlers, cmd.dh_id)
  IN  [self |-> self,
       tlm |-> IF e = NoErr
                 THEN QueryTlm(cmd.seq, "Success",
                               Some(get_stats(self.handlers[cmd.dh_id])))
                 ELSE QueryTlm(cmd.seq, to_error_code(e), None)]

\* CommandInterpreter::handle_config
handle_config(self, cmd) ==
  [self |-> IF IsSome(cmd.beacon_interval)
              THEN [self EXCEPT !.beacon_interval = Unwrap(cmd.beacon_interval),
                                !.config_beacon_interval = Unwrap(cmd.beacon_interval)]
              ELSE self,
   tlm |-> Tlm("Config", cmd.seq, "Success")]

\* CommandInterpreter::handle_config_dh
handle_config_dh(self, cmd) ==
  [self |-> self, tlm |-> Tlm("ConfigDH", cmd.seq, "Success")]

\* CommandInterpreter::process_command
process_command(self, cmd, src_addr, t, env) ==
  CASE cmd.type = "Ping" -> handle_ping(self, cmd)
    [] cmd.type = "RestartArm" -> handle_restart_arm(self, cmd, t)
    [] cmd.type = "Restart" -> handle_restart(self, cmd, t)
    [] cmd.type = "StartDH" -> handle_start_dh(self, cmd, src_addr, env)
    [] cmd.type = "StopDH" -> handle_stop_dh(self, cmd, env)
    [] cmd.type = "QueryDH" -> handle_query_dh(self, cmd)
    [] cmd.type = "Config" -> handle_config(self, cmd)
    [] cmd.type = "ConfigDH" -> handle_config_dh(self, cmd)

\* CommandInterpreter::send_telemetry: the send_to calls it makes.
send_telemetry(tlm, addr, env) ==
  <<[tlm |-> tlm, addr |-> addr, ok |-> env.send_ok]>>

\* CommandInterpreter::try_recv_command: "cmd" for Ok(Some(cmd, src)),
\* "none" for Ok(None), "err" for Err.
try_recv_command(d) ==
  CASE d.kind \in {"timeout", "empty"} -> "none"
    [] d.kind = "ioerr" -> "err"
    [] d.kind = "garbage" -> "err"
    [] d.kind = "tlm" -> "none"
    [] d.kind = "cmd" -> "cmd"

\* --------------------------------- tcspecial: DataHandler and CI (dh.rs, ci.rs)
\* DataHandler::new of the tcspecial crate
tcspecial_DataHandler_new(id) ==
  [id |-> id, state |-> "Created", ground_to_payload |-> "None",
   payload_to_ground |-> "None", running |-> FALSE, cmd_pipe |-> "Open"]

\* DataHandler::stop of the tcspecial crate (the results of Relay::stop are
\* only used for the statistics).
tcspecial_stop(dh) ==
  IF dh.state # "Active" THEN dh
  ELSE [dh EXCEPT !.running = FALSE, !.ground_to_payload = "None",
                  !.payload_to_ground = "None", !.state = "Stopped",
                  !.cmd_pipe = "None"]

\* DataHandler::start of the tcspecial crate: the relays are created but not
\* started ("In a full implementation, we would start the relays here").
tcspecial_start(dh, env) ==
  IF dh.state # "Created"
    THEN [err |-> ErrKind("DataHandler"), dh |-> dh]
  ELSE IF dh.cmd_pipe = "None"
    THEN [err |-> ErrKind("DataHandler"), dh |-> dh]
  ELSE IF ~env.payload_ok
    THEN [err |-> ErrKind("Io"), dh |-> dh]
  ELSE [err |-> NoErr,
        dh |-> [dh EXCEPT !.state = "Active", !.running = TRUE,
                          !.ground_to_payload = "NotStarted",
                          !.payload_to_ground = "NotStarted"]]

\* The system calls DataHandler::stop of the tcspecial crate makes.
tcspecial_stop_syscalls(dh) ==
  IF dh.state # "Active" THEN <<>>
  ELSE (IF dh.cmd_pipe # "None" THEN <<"close_pipe_read", "close_pipe_write">>
        ELSE <<>>)

\* CommandInterpreter::process_command of the tcspecial crate
tcspecial_process_command(self, cmd, t, env, configs) ==
  CASE cmd.type = "Ping" ->
         [self |-> self, tlm |-> Tlm("Ping", cmd.seq, "Success")]
    [] cmd.type = "RestartArm" ->
         [self |-> [self EXCEPT !.arm_state = Armed(cmd.arm_key, t)],
          tlm |-> Tlm("RestartArm", cmd.seq, "Success")]
    [] cmd.type = "Restart" ->
         IF IsSome(self.arm_state)
           THEN IF Unwrap(self.arm_state).key = cmd.arm_key
                   /\ t - Unwrap(self.arm_state).at < RESTART_ARM_TIMEOUT
                  THEN [self |-> [self EXCEPT !.running = FALSE],
                        tlm |-> Tlm("Restart", cmd.seq, "Success")]
                  ELSE [self |-> self,
                        tlm |-> Tlm("Restart", cmd.seq, "InvalidParameter")]
           ELSE [self |-> self, tlm |-> Tlm("Restart", cmd.seq, "NotArmed")]
    [] cmd.type = "StartDH" ->
         IF cmd.dh_id \in DOMAIN self.handlers
           THEN [self |-> self, tlm |-> Tlm("StartDH", cmd.seq, "Success")]
         ELSE IF cmd.dh_id \in configs
           THEN IF env.pipe_ok
                  THEN [self |-> [self EXCEPT !.handlers =
                                    MapPut(@, cmd.dh_id,
                                           tcspecial_DataHandler_new(cmd.dh_id))],
                        tlm |-> Tlm("StartDH", cmd.seq, "Success")]
                  ELSE [self |-> self,
                        tlm |-> Tlm("StartDH", cmd.seq, "Failure")]
         ELSE [self |-> self, tlm |-> Tlm("StartDH", cmd.seq, "NotFound")]
    [] cmd.type = "StopDH" ->
         IF cmd.dh_id \in DOMAIN self.handlers
           THEN [self |-> [self EXCEPT !.handlers[cmd.dh_id] = tcspecial_stop(@)],
                 tlm |-> Tlm("StopDH", cmd.seq, "Success")]
           ELSE [self |-> self, tlm |-> Tlm("StopDH", cmd.seq, "Success")]
    [] cmd.type = "QueryDH" ->
         IF cmd.dh_id \in DOMAIN self.handlers
           THEN [self |-> self, tlm |-> Tlm("QueryDH", cmd.seq, "Success")]
           ELSE [self |-> self, tlm |-> Tlm("QueryDH", cmd.seq, "NotFound")]
    [] cmd.type = "Config" ->
         [self |-> [self EXCEPT !.beacon_interval = Unwrap(cmd.beacon_interval)],
          tlm |-> Tlm("Config", cmd.seq, "Success")]
    [] cmd.type = "ConfigDH" ->
         [self |-> self, tlm |-> Tlm("ConfigDH", cmd.seq, "Success")]

\* ------------------------------------------------------------------ actions
\* The operating-system answers that matter for datagram d; the others are
\* fixed so that equal steps are not enumerated repeatedly.
EnvsFor(d) ==
  IF d.kind # "cmd" THEN {EnvOk}
  ELSE IF d.cmd.type = "StartDH" THEN WithSendFailure(StartEnvs)
  ELSE IF d.cmd.type = "StopDH" THEN WithSendFailure(StopEnvs)
  ELSE WithSendFailure({EnvOk})

\* Source addresses a datagram can carry: none for a timeout or an error.
AddrsFor(d) == IF d.kind \in {"timeout", "ioerr"} THEN {"-"} ELSE Addrs

\* The history variables after a reply tlm produced at instant t.
ArmAnswered(tlm) == tlm.type = "RestartArm" /\ tlm.status = "Success"
ArmConsumed(tlm) ==
  tlm.type = "Restart" /\ tlm.status \in {"Success", "ArmWindowExpired"}

NextArmedAt(tlm, t) ==
  IF ArmAnswered(tlm) THEN Some(t)
  ELSE IF ArmConsumed(tlm) THEN None
  ELSE hArmedAt

NextSinceAny(tlm) ==
  IF ArmAnswered(tlm) THEN TRUE
  ELSE IF tlm.type = "Restart" THEN FALSE
  ELSE hSinceAny

NextRearmed(tlm) ==
  IF ArmAnswered(tlm) THEN IsSome(hArmedAt)
  ELSE IF ArmConsumed(tlm) THEN FALSE
  ELSE hRearmed

Init ==
  /\ impl \in Impls
  /\ traffic \in Traffics
  /\ pc = "new"
  /\ now = 0
  /\ running = FALSE
  /\ arm_state = None
  /\ handlers = EmptyMap
  /\ dh_configs \in IF impl = "tcspecial" THEN SUBSET DHIds ELSE {{}}
  /\ beacon_interval = BEACON_DEFAULT
  /\ config_beacon_interval = BEACON_DEFAULT
  /\ last_beacon = 0
  /\ io = NoIO
  /\ hArmedAt = None
  /\ hSinceAny = FALSE
  /\ hRearmed = FALSE
  /\ AuxInit

\* tcspecial: CommandInterpreter::initialize_handlers, called by main before
\* run; on an error main exits.
InitializeHandlers ==
  /\ impl = "tcspecial" /\ pc = "new"
  /\ handlers = EmptyMap /\ dh_configs # {}
  /\ \E pipe_ok \in BOOLEAN :
       IF pipe_ok
         THEN /\ handlers' = [i \in dh_configs |-> tcspecial_DataHandler_new(i)]
              /\ pc' = pc
         ELSE /\ handlers' = handlers
              /\ pc' = "failed"
  /\ io' = NoIO
  /\ UNCHANGED <<auxvars, impl, traffic, now, running, arm_state, dh_configs, beacon_interval,
                 config_beacon_interval, last_beacon, hArmedAt, hSinceAny, hRearmed>>

\* run(): the running flag is set and the loop is entered.
RunStart ==
  /\ pc = "new"
  /\ pc' = "loop"
  /\ running' = TRUE
  /\ io' = NoIO
  /\ UNCHANGED <<auxvars, impl, traffic, now, arm_state, handlers, dh_configs, beacon_interval,
                 config_beacon_interval, last_beacon, hArmedAt, hSinceAny, hRearmed>>

\* The while test of run() finds the running flag set: next iteration.
LoopTest ==
  /\ pc = "loop" /\ running
  /\ pc' = "recv"
  /\ io' = NoIO
  /\ UNCHANGED <<auxvars, impl, traffic, now, running, arm_state, handlers, dh_configs,
                 beacon_interval, config_beacon_interval, last_beacon,
                 hArmedAt, hSinceAny, hRearmed>>

\* Time passes while the CI waits for a datagram.
Tick ==
  /\ pc = "recv" /\ traffic = "restart"
  /\ \E d \in TickSteps : now + d <= MaxTime /\ now' = now + d
  /\ io' = NoIO
  /\ UNCHANGED <<auxvars, impl, traffic, pc, running, arm_state, handlers, dh_configs,
                 beacon_interval, config_beacon_interval, last_beacon,
                 hArmedAt, hSinceAny, hRearmed>>

\* tcsspecial main.rs: the Ctrl+C handler clears the running flag.
Signal ==
  /\ impl = "tcsspecial" /\ pc = "recv" /\ running
  /\ running' = FALSE
  /\ io' = NoIO
  /\ UNCHANGED <<auxvars, impl, traffic, pc, now, arm_state, handlers, dh_configs,
                 beacon_interval, config_beacon_interval, last_beacon,
                 hArmedAt, hSinceAny, hRearmed>>

\* The beacon check at the end of a loop iteration of tcsspecial's run().
BeaconDue(interval_ms) == (now - last_beacon) * 1000 >= interval_ms

\* tcsspecial: the body of the loop of CommandInterpreter::run.
RunIteration ==
  /\ impl = "tcsspecial" /\ pc = "recv"
  /\ \E d \in Datagrams(impl, traffic) : \E a \in AddrsFor(d) : \E env \in EnvsFor(d) :
       LET got == try_recv_command(d)
           r == IF got = "cmd" THEN process_command(Self, d.cmd, a, now, env)
                ELSE [self |-> Self, tlm |-> Tlm("-", 0, "-")]
           sent == IF got = "cmd" THEN send_telemetry(r.tlm, a, env) ELSE <<>>
           failed == got = "err" \/ (got = "cmd" /\ ~env.send_ok)
           beacon == ~failed /\ BeaconDue(r.self.config_beacon_interval)
       IN  /\ arm_state' = r.self.arm_state
           /\ running' = r.self.running
           /\ handlers' = r.self.handlers
           /\ beacon_interval' = r.self.beacon_interval
           /\ config_beacon_interval' = r.self.config_beacon_interval
           /\ pc' = IF failed THEN "failed" ELSE "loop"
           /\ last_beacon' = IF beacon THEN now ELSE last_beacon
           /\ io' = [dgram |-> d, src |-> a, sent |-> sent, beacon |-> beacon]
           /\ hArmedAt' = NextArmedAt(r.tlm, now)
           /\ hSinceAny' = NextSinceAny(r.tlm)
           /\ hRearmed' = NextRearmed(r.tlm)
  /\ UNCHANGED <<auxvars, impl, traffic, now, dh_configs>>

\* tcsspecial: the loop of run() ends, shutdown() stops every handler and
\* run returns Ok.
RunExit ==
  /\ impl = "tcsspecial" /\ pc = "loop" /\ ~running
  /\ \E env \in StopEnvs : handlers' = stop_all(handlers, env)
  /\ pc' = "done"
  /\ io' = NoIO
  /\ UNCHANGED <<auxvars, impl, traffic, now, running, arm_state, dh_configs, beacon_interval,
                 config_beacon_interval, last_beacon, hArmedAt, hSinceAny, hRearmed>>

\* tcspecial: the body of the loop of CommandInterpreter::run.
TcspecialRunIteration ==
  /\ impl = "tcspecial" /\ pc = "recv"
  /\ \E d \in Datagrams(impl, traffic) : \E a \in AddrsFor(d) :
     \E env \in {e \in EnvsFor(d) : e.oc_ok /\ e.payload_ok} :
       LET decoded == d.kind = "cmd"
           r == IF decoded
                  THEN tcspecial_process_command(Self, d.cmd, now, env, dh_configs)
                  ELSE [self |-> Self, tlm |-> Tlm("-", 0, "-")]
           sent == IF decoded
                     THEN <<[tlm |-> r.tlm, addr |-> a, ok |-> env.send_ok]>>
                     ELSE <<>>
       IN  /\ arm_state' = r.self.arm_state
           /\ running' = r.self.running
           /\ handlers' = r.self.handlers
           /\ beacon_interval' = r.self.beacon_interval
           /\ pc' = IF d.kind = "ioerr" THEN "failed" ELSE "loop"
           /\ io' = [dgram |-> d, src |-> a, sent |-> sent, beacon |-> FALSE]
           /\ hArmedAt' = NextArmedAt(r.tlm, now)
           /\ hSinceAny' = NextSinceAny(r.tlm)
           /\ hRearmed' = NextRearmed(r.tlm)
  /\ UNCHANGED <<auxvars, impl, traffic, now, dh_configs, config_beacon_interval, last_beacon>>

\* tcspecial: the loop ends, run returns Ok and main calls shutdown().
TcspecialRunExit ==
  /\ impl = "tcspecial" /\ pc = "loop" /\ ~running
  /\ handlers' = [i \in DOMAIN handlers |-> tcspecial_stop(handlers[i])]
  /\ pc' = "done"
  /\ io' = NoIO
  /\ UNCHANGED <<auxvars, impl, traffic, now, running, arm_state, dh_configs, beacon_interval,
                 config_beacon_interval, last_beacon, hArmedAt, hSinceAny, hRearmed>>

Next ==
  \/ InitializeHandlers
  \/ RunStart
  \/ LoopTest
  \/ Tick
  \/ Signal
  \/ RunIteration
  \/ RunExit
  \/ TcspecialRunIteration
  \/ TcspecialRunExit

Spec == Init /\ [][Next]_vars

\* --------------------------------------------- the DataHandler API by itself
\* A caller that owns DataHandlers and calls the public functions new,
\* activate (start in the tcspecial crate), stop and get_stats on them in any
\* order and under every outcome of the system calls.  io.dgram records the
\* call just made.
Call(fn, id, err, syscalls) ==
  [dgram |-> [kind |-> "call", fn |-> fn, id |-> id, err |-> err,
              syscalls |-> syscalls],
   src |-> "-", sent |-> <<>>, beacon |-> FALSE]

DHInit ==
  /\ impl \in Impls
  /\ traffic = "dh"
  /\ pc = "api"
  /\ now = 0
  /\ running = FALSE
  /\ arm_state = None
  /\ handlers = EmptyMap
  /\ dh_configs = IF impl = "tcspecial" THEN DHIds ELSE {}
  /\ beacon_interval = BEACON_DEFAULT
  /\ config_beacon_interval = BEACON_DEFAULT
  /\ last_beacon = 0
  /\ io = NoIO
  /\ hArmedAt = None
  /\ hSinceAny = FALSE
  /\ hRearmed = FALSE
  /\ AuxInit

DHUnchanged ==
  UNCHANGED <<auxvars, impl, traffic, pc, now, running, arm_state, dh_configs,
              beacon_interval, config_beacon_interval, last_beacon,
              hArmedAt, hSinceAny, hRearmed>>

\* DataHandler::new, followed by initialize in the tcsspecial crate.
DhNew ==
  /\ pc = "api"
  /\ \E id \in DHIds \ DOMAIN handlers : \E k \in DHKinds : \E pipe_ok \in BOOLEAN :
       LET env == [EnvOk EXCEPT !.pipe_ok = pipe_ok]
           r == IF impl = "tcsspecial"
                  THEN initialize(DataHandler_new(
                         k.dh_type, k.name,
                         IF k.dh_type = "Network" THEN DHConfig_datagram
                         ELSE DHConfig_stream), env)
                ELSE IF pipe_ok
                  THEN [err |-> NoErr, dh |-> tcspecial_DataHandler_new(id)]
                ELSE [err |-> ErrKind("Io"), dh |-> tcspecial_DataHandler_new(id)]
       IN  /\ handlers' = IF r.err = NoErr THEN MapPut(handlers, id, r.dh)
                          ELSE handlers
           /\ io' = Call("new", id, r.err, <<>>)
  /\ DHUnchanged

\* DataHandler::activate (tcsspecial) / DataHandler::start (tcspecial).
DhActivate ==
  /\ pc = "api"
  /\ \E id \in DOMAIN handlers : \E env \in StartEnvs :
       LET r == IF impl = "tcsspecial" THEN activate(handlers[id], env)
                ELSE tcspecial_start(handlers[id], env)
       IN  /\ handlers' = [handlers EXCEPT ![id] = r.dh]
           /\ io' = Call("activate", id, r.err, <<>>)
  /\ DHUnchanged

\* DataHandler::stop.
DhStop ==
  /\ pc = "api"
  /\ \E id \in DOMAIN handlers : \E env \in StopEnvs :
       LET r == IF impl = "tcsspecial" THEN stop(handlers[id], env)
                ELSE [err |-> NoErr, dh |-> tcspecial_stop(handlers[id])]
           sc == IF impl = "tcsspecial" THEN stop_syscalls(handlers[id], env)
                 ELSE tcspecial_stop_syscalls(handlers[id])
       IN  /\ handlers' = [handlers EXCEPT ![id] = r.dh]
           /\ io' = Call("stop", id, r.err, sc)
  /\ DHUnchanged

\* DataHandler::get_stats (tcsspecial) / statistics (tcspecial): reads only.
DhGetStats ==
  /\ pc = "api"
  /\ \E id \in DOMAIN handlers :
       io' = Call("get_stats", id, NoErr, <<>>)
  /\ handlers' = handlers
  /\ DHUnchanged

DHNext == DhNew \/ DhActivate \/ DhStop \/ DhGetStats

DHSpec == DHInit /\ [][DHNext]_vars

\* ------------------------------------------- BeaconSend and its worker thread
\* beacon_send.rs: the worker thread runs beacon_send while another thread
\* calls set_interval.  pair.lock is the mutex that guards the expiration
\* time, pair.cvar the condition variable the worker waits on.  The clock is
\* in units of the shortest interval.
MaxClock == 3
MaxSets == 2
Intervals == {1, 2}

\* The command interpreter is not running.
CIOff ==
  /\ impl = "tcspecial"
  /\ traffic = "dh"
  /\ pc = "off"
  /\ now = 0
  /\ running = FALSE
  /\ arm_state = None
  /\ handlers = EmptyMap
  /\ dh_configs = {}
  /\ beacon_interval = BEACON_DEFAULT
  /\ config_beacon_interval = BEACON_DEFAULT
  /\ last_beacon = 0
  /\ io = NoIO
  /\ hArmedAt = None
  /\ hSinceAny = FALSE
  /\ hRearmed = FALSE

\* BeaconSend::new with a non-zero interval: the expiration time is
\* now + interval and the worker thread is spawned.
BeaconSend_new(interval) ==
  [built |-> TRUE,
   clock |-> 0,
   interval |-> interval,        \* self.interval
   expiration |-> interval,      \* the value guarded by pair.lock
   lock |-> "free",              \* who holds pair.lock
   wpc |-> "first_send",         \* where the worker is in beacon_send
   wake_at |-> 0,                \* when the worker's wait_timeout expires
   notified |-> FALSE,           \* a notify_one reached the waiting worker
   timed_out |-> FALSE,          \* result.timed_out() of the last wait
   local |-> interval,           \* the worker's local `interval`
   spc |-> "idle",               \* where the caller is in set_interval
   calls |-> 0,                  \* calls of set_interval made so far
   hGen |-> 0,                   \* history: writes of self.interval so far
   hReadGen |-> 0,               \* history: hGen when `local` was read
   hPending |-> FALSE,           \* history: expiration was set to now by
                                 \* set_interval and no beacon was sent since
   hPendGen |-> 0,               \* history: hGen of that set_interval
   hAnswering |-> FALSE,         \* history: the beacon just sent answered one
   hAnsGen |-> 0,                \* history: hGen of the set_interval answered
   hCallAt |-> "none",           \* history: wpc when that set_interval began
   hAnsAt |-> "none",            \* history: hCallAt of the call answered
   hFire |-> None]               \* history: when the last beacon was sent

BsInit ==
  /\ CIOff
  /\ cdt = NotBuilt
  /\ fdt = NotBuilt
  /\ codec = NotBuilt
  /\ mgr = NotBuilt
  /\ sdh = NotBuilt
  /\ gcl = NotBuilt
  /\ \E i \in Intervals : bsend = BeaconSend_new(i)

\* Time passes.
BsTick ==
  /\ bsend.clock < MaxClock
  /\ bsend' = [bsend EXCEPT !.clock = @ + 1]
  /\ UNCHANGED <<civars, cdt, fdt, codec, mgr, sdh, gcl>>

\* send_beacon, as the worker's history sees it.
Sent(b) ==
  [b EXCEPT !.hPending = FALSE,
            !.hAnswering = b.hAnswering \/ b.hPending,
            !.hAnsGen = IF b.hPending THEN b.hPendGen ELSE @,
            !.hAnsAt = IF b.hPending THEN b.hCallAt ELSE @,
            !.hFire = Some(b.clock)]

\* beacon_send: the beacon sent before the loop is entered.
WFirstSend ==
  /\ bsend.wpc = "first_send"
  /\ bsend' = [Sent(bsend) EXCEPT !.wpc = "lock"]
  /\ UNCHANGED <<civars, cdt, fdt, codec, mgr, sdh, gcl>>

\* beacon_send: self.pair.lock.lock() at the top of the loop.
WLock ==
  /\ bsend.wpc = "lock" /\ bsend.lock = "free"
  /\ bsend' = [bsend EXCEPT !.lock = "worker", !.wpc = "check"]
  /\ UNCHANGED <<civars, cdt, fdt, codec, mgr, sdh, gcl>>

\* beacon_send: the test `*expiration > SystemTime::now()`; when it is true
\* the worker enters wait_timeout, which releases the mutex.
WCheck ==
  /\ bsend.wpc = "check"
  /\ bsend' = IF bsend.expiration > bsend.clock
                THEN [bsend EXCEPT !.wpc = "wait", !.lock = "free",
                                   !.wake_at = bsend.expiration,
                                   !.notified = FALSE]
                ELSE [bsend EXCEPT !.wpc = "send"]
  /\ UNCHANGED <<civars, cdt, fdt, codec, mgr, sdh, gcl>>

\* wait_timeout ends because of a notification or spuriously.
WWake ==
  /\ bsend.wpc = "wait"
  /\ bsend' = [bsend EXCEPT !.wpc = "woken", !.timed_out = FALSE,
                            !.notified = FALSE]
  /\ UNCHANGED <<civars, cdt, fdt, codec, mgr, sdh, gcl>>

\* wait_timeout ends because its timeout has passed.
WTimeout ==
  /\ bsend.wpc = "wait" /\ bsend.clock >= bsend.wake_at
  /\ bsend' = [bsend EXCEPT !.wpc = "woken", !.timed_out = TRUE,
                            !.notified = FALSE]
  /\ UNCHANGED <<civars, cdt, fdt, codec, mgr, sdh, gcl>>

\* wait_timeout takes the mutex again before it returns; a timed out wait
\* leaves the while loop, any other goes back to its test.
WReacquire ==
  /\ bsend.wpc = "woken" /\ bsend.lock = "free"
  /\ bsend' = [bsend EXCEPT !.lock = "worker",
                            !.wpc = IF bsend.timed_out THEN "send" ELSE "check"]
  /\ UNCHANGED <<civars, cdt, fdt, codec, mgr, sdh, gcl>>

\* beacon_send: send_beacon inside the loop.
WSend ==
  /\ bsend.wpc = "send"
  /\ bsend' = [Sent(bsend) EXCEPT !.wpc = "read_interval"]
  /\ UNCHANGED <<civars, cdt, fdt, codec, mgr, sdh, gcl>>

\* beacon_send: let interval = *self.interval.lock().unwrap().
WReadInterval ==
  /\ bsend.wpc = "read_interval"
  /\ bsend' = [bsend EXCEPT !.local = bsend.interval, !.hReadGen = bsend.hGen,
                            !.wpc = "set_exp"]
  /\ UNCHANGED <<civars, cdt, fdt, codec, mgr, sdh, gcl>>

\* beacon_send: *expiration = now + interval; the guard is dropped at the
\* end of the loop body.
WSetExpiration ==
  /\ bsend.wpc = "set_exp"
  /\ bsend' = [bsend EXCEPT !.expiration = bsend.clock + bsend.local,
                            !.lock = "free", !.wpc = "lock",
                            !.hAnswering = FALSE]
  /\ UNCHANGED <<civars, cdt, fdt, codec, mgr, sdh, gcl>>

\* A set_interval that stores a zero interval like any other.
SetInterval_zero_stored ==
  /\ bsend.spc = "idle" /\ bsend.calls < MaxSets
  /\ \E new \in Intervals \cup {0} :
       bsend' = [bsend EXCEPT !.calls = @ + 1, !.interval = new,
                              !.hGen = @ + 1, !.hCallAt = bsend.wpc,
                              !.spc = IF new = 0 THEN "idle" ELSE "set_exp"]
  /\ UNCHANGED <<civars, cdt, fdt, codec, mgr, sdh, gcl>>

\* set_interval: a zero interval returns at once, any other is stored in
\* self.interval.
SetInterval ==
  /\ bsend.spc = "idle" /\ bsend.calls < MaxSets
  /\ \E new \in Intervals \cup {0} :
       bsend' = IF new = 0
                  THEN [bsend EXCEPT !.calls = @ + 1]
                  ELSE [bsend EXCEPT !.calls = @ + 1, !.interval = new,
                                     !.hGen = @ + 1, !.hCallAt = bsend.wpc,
                                     !.spc = "set_exp"]
  /\ UNCHANGED <<civars, cdt, fdt, codec, mgr, sdh, gcl>>

\* set_interval: *self.pair.lock.lock().unwrap() = SystemTime::now().
SSetExpiration ==
  /\ bsend.spc = "set_exp" /\ bsend.lock = "free"
  /\ bsend' = [bsend EXCEPT !.expiration = bsend.clock, !.spc = "notify",
                            !.hPending = TRUE, !.hPendGen = bsend.hGen]
  /\ UNCHANGED <<civars, cdt, fdt, codec, mgr, sdh, gcl>>

\* A set_interval that returns without waking the worker.
SNotify_lost ==
  /\ bsend.spc = "notify"
  /\ bsend' = [bsend EXCEPT !.spc = "idle"]
  /\ UNCHANGED <<civars, cdt, fdt, codec, mgr, sdh, gcl>>

\* set_interval: self.pair.cvar.notify_one().
SNotify ==
  /\ bsend.spc = "notify"
  /\ bsend' = [bsend EXCEPT !.spc = "idle",
                            !.notified = @ \/ bsend.wpc = "wait"]
  /\ UNCHANGED <<civars, cdt, fdt, codec, mgr, sdh, gcl>>

BsNext ==
  \/ BsTick
  \/ WFirstSend
  \/ WLock
  \/ WCheck
  \/ WWake
  \/ WTimeout
  \/ WReacquire
  \/ WSend
  \/ WReadInterval
  \/ WSetExpiration
  \/ SetInterval
  \/ SSetExpiration
  \/ SNotify

BeaconSpec == BsInit /\ [][BsNext]_vars

\* Time passes, with every stored time kept relative to the present, so that
\* the clock needs no bound: every time before the present compares with
\* the present as the latest of them does.
BsTickRel ==
  /\ bsend.built
  /\ LET back(t) == IF t < 0 THEN t ELSE t - 1
     IN  bsend' = [bsend EXCEPT !.expiration = back(@), !.wake_at = back(@),
                                !.hFire = IF IsSome(@) THEN Some(back(Unwrap(@))) ELSE @]
  /\ UNCHANGED <<civars, cdt, fdt, codec, mgr, sdh, gcl>>

BsFairNext ==
  \/ BsTickRel
  \/ WFirstSend
  \/ WLock
  \/ WCheck
  \/ WWake
  \/ WTimeout
  \/ WReacquire
  \/ WSend
  \/ WReadInterval
  \/ WSetExpiration
  \/ SetInterval
  \/ SSetExpiration
  \/ SNotify

\* The worker thread is scheduled whenever it can run, a wait whose timeout
\* has passed returns, and time passes; the callers of set_interval are free
\* to call or not.
BeaconFairSpec ==
  /\ BsInit /\ [][BsFairNext]_vars
  /\ WF_vars(BsTickRel)
  /\ WF_vars(WFirstSend) /\ WF_vars(WLock) /\ WF_vars(WCheck)
  /\ WF_vars(WTimeout) /\ WF_vars(WReacquire) /\ WF_vars(WSend)
  /\ WF_vars(WReadInterval) /\ WF_vars(WSetExpiration)

\* ------------------------------------------------ the Conduits of a handler
\* conduit.rs: a data handler owns two Conduits, ground to payload and
\* payload to ground, that were given the same command pipe (dh.rs, start).
\* Each Conduit thread runs the loop of Conduit::start; the thread that owns
\* the handler stops them one after the other with Conduit::stop and then
\* closes the pipe, as DataHandler::stop does.
MaxStream == 2
Dirs == {"g2p", "p2g"}
\* The byte sequences waiting at a reader: byte i is the i-th byte sent.
Streams == {[i \in 1..n |-> i] : n \in 0..MaxStream}

Conduits_started(s, p, e) ==
  [built |-> TRUE,
   running |-> [d \in Dirs |-> TRUE],    \* Conduit.running
   tpc |-> [d \in Dirs |-> "while"],     \* where each thread is in its loop
   pipe |-> p,                           \* the bytes in the command pipe
   src |-> s,                            \* bytes waiting at each reader
   so_error |-> e,                       \* an error is pending at the reader:
                                         \* its next read returns Err
   chunk |-> [d \in Dirs |-> <<>>],      \* buffer[..n] of the last read
   out |-> [d \in Dirs |-> <<>>],        \* bytes each writer has accepted
   reads_failed |-> [d \in Dirs |-> 0],  \* stats.reads_failed of each thread
   writes_failed |-> [d \in Dirs |-> 0], \* stats.writes_failed of each thread
   ctl |-> "active",                     \* where the stopping thread is
   hRead |-> [d \in Dirs |-> <<>>],      \* history: bytes each reader returned
   hWriteErr |-> [d \in Dirs |-> FALSE], \* history: a write returned Err
   hLate |-> [d \in Dirs |-> FALSE],     \* history: a read or write completed
                                         \* after the stop byte was written
   hIgnored |-> [d \in Dirs |-> FALSE]]  \* history: the thread read a command
                                         \* byte other than 0

CdInit ==
  /\ CIOff
  /\ bsend = NotBuilt
  /\ fdt = NotBuilt
  /\ codec = NotBuilt
  /\ mgr = NotBuilt
  /\ sdh = NotBuilt
  /\ gcl = NotBuilt
  /\ \E s \in [Dirs -> Streams] : \E p \in {<<>>, <<1>>} :
     \E e \in [Dirs -> BOOLEAN] : cdt = Conduits_started(s, p, e)

CdUnchanged == UNCHANGED <<civars, bsend, fdt, codec, mgr, sdh, gcl>>

\* Conduit::stop has written the stop byte for the Conduit of direction d.
StopWritten(c, d) ==
  IF d = "g2p"
    THEN c.ctl \in {"join_g2p", "flag_p2g", "write_p2g", "join_p2g", "close", "done"}
    ELSE c.ctl \in {"join_p2g", "close", "done"}

\* The loop test `while running.load()`.
TWhile(d) ==
  /\ cdt.built /\ cdt.tpc[d] = "while"
  /\ cdt' = [cdt EXCEPT !.tpc[d] = IF cdt.running[d] THEN "poll" ELSE "exited"]
  /\ CdUnchanged

\* reader.wait_for_event(cmd_fd, 1000): wait_for_fds polls the reader's fd
\* and the command pipe; a readable pipe gives CommandPending or Both, else
\* readable data gives IoReady, else the poll times out.
TPoll(d) ==
  /\ cdt.built /\ cdt.tpc[d] = "poll"
  /\ cdt' = [cdt EXCEPT !.tpc[d] = IF cdt.pipe # <<>> THEN "cmd_read"
                                   ELSE IF cdt.src[d] # <<>> THEN "io_read"
                                   ELSE "while"]
  /\ CdUnchanged

\* wait_for_event returns Ok(WaitResult::Error) or Err: the loop is left.
TPollError(d) ==
  /\ cdt.built /\ cdt.tpc[d] = "poll"
  /\ cdt' = [cdt EXCEPT !.tpc[d] = "exited"]
  /\ CdUnchanged

\* The command byte read ends the loop whatever its value.
TCmdRead_any_byte(d) ==
  /\ cdt.built /\ cdt.tpc[d] = "cmd_read"
  /\ cdt.pipe # <<>>
  /\ cdt' = [cdt EXCEPT !.tpc[d] = "exited", !.pipe = Tail(@)]
  /\ CdUnchanged

\* libc::read(cmd_fd, .., 1) on the blocking pipe, then `cmd_buf[0] == 0`:
\* byte 0 leaves the loop, any other byte is dropped and the loop goes on.
TCmdRead(d) ==
  /\ cdt.built /\ cdt.tpc[d] = "cmd_read"
  /\ cdt.pipe # <<>>
  /\ cdt' = [cdt EXCEPT !.tpc[d] = IF Head(cdt.pipe) = 0 THEN "exited" ELSE "while",
                        !.pipe = Tail(@),
                        !.hIgnored[d] = @ \/ Head(cdt.pipe) # 0]
  /\ CdUnchanged

\* A failed read is counted and ends the loop.
TIoRead_err_exits(d) ==
  /\ cdt.built /\ cdt.tpc[d] = "io_read"
  /\ \E n \in 0..Len(cdt.src[d]) : \E err \in BOOLEAN :
       /\ err <=> cdt.so_error[d]
       /\ err => n = 0
       /\ cdt' = IF err
                   THEN [cdt EXCEPT !.tpc[d] = "exited", !.reads_failed[d] = @ + 1,
                                    !.so_error[d] = FALSE]
                 ELSE IF n = 0
                   THEN [cdt EXCEPT !.tpc[d] = "while"]
                 ELSE [cdt EXCEPT !.tpc[d] = "io_write",
                                  !.chunk[d] = SubSeq(cdt.src[d], 1, n),
                                  !.src[d] = SubSeq(cdt.src[d], n + 1, Len(cdt.src[d])),
                                  !.hRead[d] = @ \o SubSeq(cdt.src[d], 1, n),
                                  !.hLate[d] = @ \/ StopWritten(cdt, d)]
  /\ CdUnchanged

\* reader.read(&mut buffer): Err when an error is pending at the reader,
\* which the read clears, else Ok(n) with n bytes of those waiting or Ok(0);
\* Ok(0) continues, Err adds 1 to reads_failed and falls out of the match,
\* and only Ok(n), n > 0, goes on to the write.
TIoRead(d) ==
  /\ cdt.built /\ cdt.tpc[d] = "io_read"
  /\ \E n \in 0..Len(cdt.src[d]) : \E err \in BOOLEAN :
       /\ err <=> cdt.so_error[d]
       /\ err => n = 0
       /\ cdt' = IF err
                   THEN [cdt EXCEPT !.tpc[d] = "while", !.reads_failed[d] = @ + 1,
                                    !.so_error[d] = FALSE]
                 ELSE IF n = 0
                   THEN [cdt EXCEPT !.tpc[d] = "while"]
                 ELSE [cdt EXCEPT !.tpc[d] = "io_write",
                                  !.chunk[d] = SubSeq(cdt.src[d], 1, n),
                                  !.src[d] = SubSeq(cdt.src[d], n + 1, Len(cdt.src[d])),
                                  !.hRead[d] = @ \o SubSeq(cdt.src[d], 1, n),
                                  !.hLate[d] = @ \/ StopWritten(cdt, d)]
  /\ CdUnchanged

\* writer.write(&buffer[..n]), called once: Ok(w) with w bytes taken,
\* 0 <= w <= n (0 is WouldBlock), or Err, which adds 1 to writes_failed;
\* then the next loop iteration.
TIoWrite(d) ==
  /\ cdt.built /\ cdt.tpc[d] = "io_write"
  /\ \E w \in 0..Len(cdt.chunk[d]) : \E err \in BOOLEAN :
       /\ err => w = 0
       /\ cdt' = [cdt EXCEPT !.tpc[d] = "while",
                             !.chunk[d] = <<>>,
                             !.out[d] = @ \o SubSeq(cdt.chunk[d], 1, w),
                             !.writes_failed[d] = IF err THEN @ + 1 ELSE @,
                             !.hWriteErr[d] = @ \/ err,
                             !.hLate[d] = @ \/ StopWritten(cdt, d)]
  /\ CdUnchanged

\* Conduit::stop: self.running.store(false).
CStopFlag ==
  /\ cdt.built /\ cdt.ctl \in {"active", "flag_p2g"}
  /\ cdt' = IF cdt.ctl = "active"
              THEN [cdt EXCEPT !.running["g2p"] = FALSE, !.ctl = "write_g2p"]
              ELSE [cdt EXCEPT !.running["p2g"] = FALSE, !.ctl = "write_p2g"]
  /\ CdUnchanged

\* Conduit::stop: libc::write of the stop byte to cmd_pipe_write.
CStopWrite ==
  /\ cdt.built /\ cdt.ctl \in {"write_g2p", "write_p2g"}
  /\ cdt' = [cdt EXCEPT !.pipe = Append(@, 0),
                        !.ctl = IF cdt.ctl = "write_g2p" THEN "join_g2p" ELSE "join_p2g"]
  /\ CdUnchanged

\* Conduit::stop: handle.join() returns once the thread has ended.
CStopJoin ==
  /\ cdt.built /\ cdt.ctl \in {"join_g2p", "join_p2g"}
  /\ cdt.tpc[IF cdt.ctl = "join_g2p" THEN "g2p" ELSE "p2g"] = "exited"
  /\ cdt' = [cdt EXCEPT !.ctl = IF cdt.ctl = "join_g2p" THEN "flag_p2g" ELSE "close"]
  /\ CdUnchanged

\* DataHandler::stop: both ends of the command pipe are closed; stop returns.
CClose ==
  /\ cdt.built /\ cdt.ctl = "close"
  /\ cdt' = [cdt EXCEPT !.ctl = "done", !.pipe = <<>>]
  /\ CdUnchanged

CdNext ==
  \/ \E d \in Dirs : TWhile(d)
  \/ \E d \in Dirs : TPoll(d)
  \/ \E d \in Dirs : TPollError(d)
  \/ \E d \in Dirs : TCmdRead(d)
  \/ \E d \in Dirs : TIoRead(d)
  \/ \E d \in Dirs : TIoWrite(d)
  \/ CStopFlag
  \/ CStopWrite
  \/ CStopJoin
  \/ CClose

ConduitSpec == CdInit /\ [][CdNext]_vars

\* --------------------------------------- the descriptors of the data handlers
\* tcsspecial dh.rs at the level of file descriptors: which descriptor
\* numbers are open, what each was opened as, and which numbers each
\* DataHandler and its relays hold.  The kernel hands out the lowest free
\* number; when none is left the call fails.
MaxFd == 8
FdNums == 3..MaxFd
NoFd == 0

Free(t) == {n \in FdNums : t.use[n] = "free"}
Lowest(S) == CHOOSE n \in S : \A m \in S : n <= m

\* No DataHandler exists and only the standard descriptors are open.
FdTable_new ==
  [built |-> TRUE,
   use |-> [n \in FdNums |-> "free"],  \* what each open number was opened as
   who |-> [n \in FdNums |-> 0],       \* and by which handler
   dh |-> [i \in DHIds |->
             [state |-> "None", dh_type |-> "Network", oc_fd |-> NoFd,
              payload_fd |-> NoFd, cmd_read |-> NoFd, cmd_write |-> NoFd,
              relays |-> FALSE]],      \* relays: both relay threads run
   hClosedInUse |-> FALSE]             \* history: a descriptor was closed that
                                       \* a running relay reads or writes

\* open / socket / pipe end: the lowest free number becomes `what` of i.
FdOpen(t, i, what) ==
  LET n == Lowest(Free(t))
  IN  [t EXCEPT !.use[n] = what, !.who[n] = i]

\* The number the last FdOpen on t returned.
FdOf(t, i, what) ==
  Lowest({n \in FdNums : t.use[n] = what /\ t.who[n] = i} \cup {MaxFd + 1})

\* close(n): an open n is closed whatever it was opened as; the history
\* notes a close of the OC or payload descriptor of running relays.
FdClose(t, n) ==
  IF n \notin FdNums \/ t.use[n] = "free" THEN t
  ELSE [t EXCEPT !.use[n] = "free", !.who[n] = 0,
                 !.hClosedInUse = @ \/ (/\ t.use[n] \in {"oc", "payload"}
                                        /\ t.dh[t.who[n]].relays)]

FdInit ==
  /\ CIOff
  /\ bsend = NotBuilt
  /\ cdt = NotBuilt
  /\ codec = NotBuilt
  /\ mgr = NotBuilt
  /\ sdh = NotBuilt
  /\ gcl = NotBuilt
  /\ fdt = FdTable_new

FdUnchanged == UNCHANGED <<civars, bsend, cdt, codec, mgr, sdh, gcl>>

\* DHManager::create_dh: DataHandler::new and initialize (the pipe).
FdCreate ==
  /\ fdt.built
  /\ \E i \in DHIds : \E ty \in {"Network", "Device"} :
       /\ fdt.dh[i].state = "None"
       /\ fdt' = IF Cardinality(Free(fdt)) < 2 THEN fdt
                 ELSE LET t1 == FdOpen(fdt, i, "cmd_read")
                          t2 == FdOpen(t1, i, "cmd_write")
                      IN  [t2 EXCEPT !.dh[i] = [@ EXCEPT !.state = "Created",
                                                         !.dh_type = ty,
                                                         !.cmd_read = FdOf(t1, i, "cmd_read"),
                                                         !.cmd_write = FdOf(t2, i, "cmd_write")]]
  /\ FdUnchanged

\* DataHandler::activate.  connect_network_payload returns
\* stream.as_raw_fd() / socket.as_raw_fd() and drops the socket, which closes
\* the descriptor; open_device_payload returns the descriptor of libc::open.
FdActivate ==
  /\ fdt.built
  /\ \E i \in DHIds :
       /\ fdt.dh[i].state = "Created"
       /\ fdt' =
            IF Free(fdt) = {} THEN fdt
            ELSE
              LET t1 == FdOpen(fdt, i, "oc")
                  oc == FdOf(t1, i, "oc")
                  t2 == [t1 EXCEPT !.dh[i].oc_fd = oc]
              IN  IF Free(t2) = {} THEN t2
                  ELSE
                    LET t3 == FdOpen(t2, i, "payload")
                        pfd == FdOf(t3, i, "payload")
                        t4 == IF t3.dh[i].dh_type = "Network" THEN FdClose(t3, pfd)
                              ELSE t3
                        t5 == [t4 EXCEPT !.dh[i].payload_fd = pfd,
                                         !.dh[i].relays = TRUE,
                                         !.dh[i].state = "Active"]
                    IN  FdClose(t5, t5.dh[i].cmd_read)
  /\ FdUnchanged

\* DataHandler::stop: both relays are stopped and joined, then payload_fd
\* and the write end of the command pipe are closed.
FdStop ==
  /\ fdt.built
  /\ \E i \in DHIds :
       /\ fdt.dh[i].state \in {"Created", "Active"}
       /\ LET t1 == [fdt EXCEPT !.dh[i].relays = FALSE]
              t2 == FdClose(t1, t1.dh[i].payload_fd)
              t3 == FdClose(t2, t2.dh[i].cmd_write)
          IN  fdt' = [t3 EXCEPT !.dh[i].payload_fd = NoFd,
                                !.dh[i].cmd_read = NoFd,
                                !.dh[i].cmd_write = NoFd,
                                !.dh[i].state = "Stopped"]
  /\ FdUnchanged

FdNext == FdCreate \/ FdActivate \/ FdStop

FdSpec == FdInit /\ [][FdNext]_vars

\* ------------------------------------------------------------------ codecs
\* tcslibgs: the serde_json encoding of Command and Telemetry, and the
\* length-prefixed MessageFrame.  One value is encoded, the bytes of a frame
\* may lose their end on the way, and the result is decoded.

MaxData == 2                     \* bytes of a vector written out one by one
Bytes == {0, 1, 255}

\* A usize is four 16-bit limbs and a u32 two, lowest first.
Limb == 256 * 256
usize(n) == <<n, 0, 0, 0>>

usize_add(a, b) ==
  LET s1 == a[1] + b[1]
      s2 == a[2] + b[2] + s1 \div Limb
      s3 == a[3] + b[3] + s2 \div Limb
      s4 == a[4] + b[4] + s3 \div Limb
  IN <<s1 % Limb, s2 % Limb, s3 % Limb, s4 % Limb>>

usize_sub(a, b) ==
  LET d1 == a[1] - b[1]
      d2 == a[2] - b[2] - (IF d1 < 0 THEN 1 ELSE 0)
      d3 == a[3] - b[3] - (IF d2 < 0 THEN 1 ELSE 0)
      d4 == a[4] - b[4] - (IF d3 < 0 THEN 1 ELSE 0)
  IN <<(d1 + Limb) % Limb, (d2 + Limb) % Limb, (d3 + Limb) % Limb, (d4 + Limb) % Limb>>

usize_lt(a, b) == \E i \in 1..4 : a[i] < b[i] /\ \A j \in (i + 1)..4 : a[j] = b[j]

\* `x as u32` keeps the low 32 bits; `x as usize` widens.
as_u32(a) == <<a[1], a[2]>>
as_usize(u) == <<u[1], u[2], 0, 0>>

to_be_bytes(u) == <<u[2] \div 256, u[2] % 256, u[1] \div 256, u[1] % 256>>
from_le_bytes(b) == <<b[2] * 256 + b[1], b[4] * 256 + b[3]>>

from_be_bytes(b) ==
  <<b[3] * 256 + b[4], b[1] * 256 + b[2]>>

\* A Vec<u8>: its bytes up to the last one that is not zero, and the number
\* of zero bytes that follow them.
RECURSIVE Vec(_, _)
Vec(h, z) ==
  IF h # <<>> /\ h[Len(h)] = 0
  THEN Vec(SubSeq(h, 1, Len(h) - 1), usize_add(z, usize(1)))
  ELSE [head |-> h, zeros |-> z]

vec_len(v) == usize_add(usize(Len(v.head)), v.zeros)
\* v[i - 1], for an index inside the vector
vec_at(v, i) == IF i <= Len(v.head) THEN v.head[i] ELSE 0
\* v[from .. from + n], for a range inside the vector
vec_slice(v, from, n) ==
  LET avail == IF Len(v.head) > from THEN Len(v.head) - from ELSE 0
  IN IF usize_lt(n, usize(avail))
     THEN Vec(SubSeq(v.head, from + 1, from + n[1]), usize(0))
     ELSE Vec(SubSeq(v.head, from + 1, Len(v.head)), usize_sub(n, usize(avail)))

\* MessageFrame::new
MessageFrame_new(data) == [length |-> as_u32(vec_len(data)), data |-> data]

\* MessageFrame::to_bytes
to_bytes(f) == Vec(to_be_bytes(f.length) \o f.data.head, f.data.zeros)

\* MessageFrame::from_bytes
from_bytes(bytes) ==
  IF usize_lt(vec_len(bytes), usize(4)) THEN None
  ELSE LET length == from_be_bytes([i \in 1..4 |-> vec_at(bytes, i)])
       IN IF usize_lt(vec_len(bytes), usize_add(usize(4), as_usize(length)))
          THEN None
          ELSE Some([length |-> length,
                     data |-> vec_slice(bytes, 4, as_usize(length))])

\* The byte vectors framed: up to MaxData bytes written out, followed by no
\* zero byte, by 2^32 - 1 of them or by 2^32 of them.
ZeroRuns == {usize(0), <<Limb - 1, Limb - 1, 0, 0>>, <<0, 0, 1, 0>>}
DataVectors ==
  {Vec(h, z) : h \in UNION {[1..n -> Bytes] : n \in 0..MaxData}, z \in ZeroRuns}

\* 2^32
U32Range == <<0, 0, 1, 0>>

\* A value of a unit-only enum, of a tuple struct with one field, of an enum
\* with one struct per variant.
Unit(name) == [variant |-> name]
Newtype(x) == <<x>>
Variant(name, value) == [variant |-> name, value |-> value]

CommandStatuses == {"Success", "Failure", "NotFound", "NotArmed", "InvalidParameter"}
Timestamps == {[seconds |-> 0, nanoseconds |-> 0], [seconds |-> 1700000000, nanoseconds |-> 999999999]}

Statistics_default ==
  [timestamp |-> None, bytes_received |-> 0, reads_completed |-> 0, reads_failed |-> 0,
   bytes_sent |-> 0, writes_completed |-> 0, writes_failed |-> 0]

CommandHeader(seq, type) == [sequence |-> seq, cmd_type |-> Unit(type)]
TelemetryHeader(seq, type, status) ==
  [sequence |-> seq, tm_type |-> Unit(type), status |-> Unit(status)]

\* The Command values the ...Command::new functions build.
CommandValues ==
  UNION {
    {Variant("Ping", [header |-> CommandHeader(s, "Ping")]) : s \in Seqs},
    {Variant(t, [header |-> CommandHeader(s, t), arm_key |-> Newtype(k)]) :
       t \in {"RestartArm", "Restart"}, s \in Seqs, k \in ArmKeys},
    {Variant("StartDH", [header |-> CommandHeader(s, "StartDH"), dh_id |-> Newtype(i),
                         dh_type |-> Unit(k.dh_type), name |-> Newtype(k.name)]) :
       s \in Seqs, i \in DHIds, k \in DHKinds},
    {Variant(t, [header |-> CommandHeader(s, t), dh_id |-> Newtype(i)]) :
       t \in {"StopDH", "QueryDH", "ConfigDH"}, s \in Seqs, i \in DHIds},
    {Variant("Config", [header |-> CommandHeader(s, "Config"),
                        beacon_interval |-> Newtype(b)]) :
       s \in Seqs, b \in {0, BEACON_DEFAULT}} }

\* The Telemetry values the ...Telemetry::new functions build.
TelemetryValues ==
  UNION {
    {Variant("Ping", [header |-> TelemetryHeader(s, "Ping", st), timestamp |-> ts]) :
       s \in Seqs, st \in CommandStatuses, ts \in Timestamps},
    {Variant(t, [header |-> TelemetryHeader(s, t, st)]) :
       t \in {"RestartArm", "Restart", "StartDH", "StopDH", "Config", "ConfigDH"},
       s \in Seqs, st \in CommandStatuses},
    {Variant("QueryDH", [header |-> TelemetryHeader(s, "QueryDH", st), dh_id |-> Newtype(i),
                         statistics |-> [Statistics_default EXCEPT !.timestamp = o,
                                                                   !.bytes_received = n]]) :
       s \in Seqs, st \in CommandStatuses, i \in DHIds,
       o \in {None} \cup {Some(ts) : ts \in Timestamps}, n \in {0, 1}},
    {Variant("Beacon", [header |-> TelemetryHeader(0, "Beacon", "Success"), timestamp |-> ts]) :
       ts \in Timestamps} }

\* The fields of the struct of each variant of Command and of Telemetry.
CommandFields == [v \in {c.variant : c \in CommandValues} |->
                    DOMAIN (CHOOSE c \in CommandValues : c.variant = v).value]
TelemetryFields == [v \in {t.variant : t \in TelemetryValues} |->
                      DOMAIN (CHOOSE t \in TelemetryValues : t.variant = v).value]

\* serde_json: a struct is an object, a tuple struct with one field is that
\* field, a unit variant is its name, None is null, and an enum of structs
\* is an object with the name of the variant as its only key.
JsonNull == [null |-> TRUE]
UnitFields == {"cmd_type", "tm_type", "status", "dh_type"}
NewtypeFields == {"arm_key", "dh_id", "name", "beacon_interval"}

serialize(f, x) ==
  CASE f \in UnitFields -> x.variant
    [] f \in NewtypeFields -> x[1]
    [] f = "header" -> [k \in DOMAIN x |-> IF k = "sequence" THEN x[k] ELSE x[k].variant]
    [] f = "statistics" ->
         [k \in DOMAIN x |-> IF k # "timestamp" THEN x[k]
                             ELSE IF x[k] = None THEN JsonNull ELSE x[k][1]]
    [] f = "timestamp" -> x

deserialize(f, j) ==
  CASE f \in UnitFields -> Unit(j)
    [] f \in NewtypeFields -> Newtype(j)
    [] f = "header" -> [k \in DOMAIN j |-> IF k = "sequence" THEN j[k] ELSE Unit(j[k])]
    [] f = "statistics" ->
         [k \in DOMAIN j |-> IF k # "timestamp" THEN j[k]
                             ELSE IF "null" \in DOMAIN j[k] THEN None ELSE Some(j[k])]
    [] f = "timestamp" -> j

\* serde_json::to_string of a Command or of a Telemetry
to_json(v) == [t \in {v.variant} |-> [f \in DOMAIN v.value |-> serialize(f, v.value[f])]]

\* serde_json::from_str into the enum whose variants have the given fields
from_json(j, fields) ==
  LET t == CHOOSE t \in DOMAIN j : TRUE
  IN IF t \in DOMAIN fields /\ DOMAIN j[t] = fields[t]
     THEN [ok |-> TRUE, value |-> Variant(t, [f \in fields[t] |-> deserialize(f, j[t][f])])]
     ELSE [ok |-> FALSE]

FieldsOf(kind) == IF kind = "Command" THEN CommandFields ELSE TelemetryFields

\* A value that is about to be encoded.
Codec_new(kind, v) ==
  [built |-> TRUE, kind |-> kind, v |-> v, pc |-> "value",
   wire |-> NotBuilt, cut |-> FALSE, back |-> NotBuilt]

CodecInit ==
  /\ CIOff
  /\ bsend = NotBuilt
  /\ cdt = NotBuilt
  /\ fdt = NotBuilt
  /\ mgr = NotBuilt
  /\ sdh = NotBuilt
  /\ gcl = NotBuilt
  /\ \/ \E v \in CommandValues : codec = Codec_new("Command", v)
     \/ \E v \in TelemetryValues : codec = Codec_new("Telemetry", v)
     \/ \E d \in DataVectors : codec = Codec_new("MessageFrame", d)

CodecUnchanged == UNCHANGED <<civars, bsend, cdt, fdt, mgr, sdh, gcl>>

\* serde_json::to_string(&v), MessageFrame::new(d).to_bytes()
CodecEncode ==
  /\ codec.pc = "value"
  /\ codec' = [codec EXCEPT !.pc = "encoded",
                  !.wire = IF codec.kind = "MessageFrame"
                           THEN to_bytes(MessageFrame_new(codec.v))
                           ELSE to_json(codec.v)]
  /\ CodecUnchanged

\* The lengths at which the bytes of a frame are cut short.
CutLens(w) ==
  {k \in {usize(n) : n \in 0..(MaxData + 4)} \cup {usize_sub(vec_len(w), usize(1))} :
     usize_lt(k, vec_len(w))}

\* Only the first k bytes of the frame arrive.
CodecCut ==
  /\ codec.pc = "encoded" /\ codec.kind = "MessageFrame" /\ ~codec.cut
  /\ \E k \in CutLens(codec.wire) :
       codec' = [codec EXCEPT !.cut = TRUE, !.wire = vec_slice(codec.wire, 0, k)]
  /\ CodecUnchanged

\* serde_json::from_str(&json), MessageFrame::from_bytes(&bytes)
CodecDecode ==
  /\ codec.pc = "encoded"
  /\ codec' = [codec EXCEPT !.pc = "decoded",
                  !.back = IF codec.kind = "MessageFrame"
                           THEN from_bytes(codec.wire)
                           ELSE from_json(codec.wire, FieldsOf(codec.kind))]
  /\ CodecUnchanged

CodecNext == CodecEncode \/ CodecCut \/ CodecDecode

CodecSpec == CodecInit /\ [][CodecNext]_vars

\* ---------------------------------------------------- the DHManager mutex
\* tcsspecial dh.rs: the threads that share a DHManager and call its
\* functions.  Each function locks `handlers` first and keeps the guard
\* until it returns.

MThreads == {1, 2}
MOps == {"create_dh", "activate_dh", "stop_dh", "get_dh_stats", "stop_all"}
MIdle == [pc |-> "idle", op |-> "-", id |-> 0, n |-> 0, left |-> {}]

\* Where a thread performs a blocking operation: the connect of the payload
\* socket, the join of a relay thread, the wait for a relay's statistics.
BlockingPcs == {"connect", "join", "stats_wait"}

\* DHManager::new
DHManager_new ==
  [built |-> TRUE,
   lock |-> 0,                               \* the thread that holds the guard
   reg |-> [i \in DHIds |-> "Absent"],       \* the state of each registered handler
   t |-> [t \in MThreads |-> MIdle]]

MgrInit ==
  /\ CIOff
  /\ bsend = NotBuilt
  /\ cdt = NotBuilt
  /\ fdt = NotBuilt
  /\ codec = NotBuilt
  /\ sdh = NotBuilt
  /\ gcl = NotBuilt
  /\ mgr = DHManager_new

MgrUnchanged == UNCHANGED <<civars, bsend, cdt, fdt, codec, sdh, gcl>>

\* A thread calls a function of the DHManager.
MCall(t) ==
  /\ mgr.t[t].pc = "idle"
  /\ \E op \in MOps : \E id \in DHIds :
       mgr' = [mgr EXCEPT !.t[t] = [MIdle EXCEPT !.pc = "lock", !.op = op, !.id = id]]
  /\ MgrUnchanged

\* self.handlers.lock()
MLock(t) ==
  /\ mgr.t[t].pc = "lock" /\ mgr.lock = 0
  /\ mgr' = [mgr EXCEPT !.lock = t,
                        !.t[t].pc = IF mgr.t[t].op = "stop_all" THEN "iter" ELSE "held",
                        !.t[t].left = {i \in DHIds : mgr.reg[i] # "Absent"}]
  /\ MgrUnchanged

\* The function looks its handler up and calls the DataHandler.
MBody(t) ==
  LET c == mgr.t[t]
      s == mgr.reg[c.id]
  IN
  /\ c.pc = "held"
  /\ mgr' =
       CASE c.op = "create_dh" ->
              [mgr EXCEPT !.reg[c.id] = IF s = "Absent" THEN "Created" ELSE s,
                          !.t[t].pc = "return"]
         [] c.op = "activate_dh" ->
              [mgr EXCEPT !.t[t].pc = IF s = "Created" THEN "connect" ELSE "return"]
         [] c.op = "stop_dh" ->
              IF s = "Active" THEN [mgr EXCEPT !.t[t].pc = "join", !.t[t].n = 2]
              ELSE [mgr EXCEPT !.reg[c.id] = IF s = "Created" THEN "Stopped" ELSE s,
                               !.t[t].pc = "return"]
         [] c.op = "get_dh_stats" ->
              IF s = "Active" THEN [mgr EXCEPT !.t[t].pc = "stats_wait", !.t[t].n = 2]
              ELSE [mgr EXCEPT !.t[t].pc = "return"]
  /\ MgrUnchanged

\* stop_all: the next handler of handlers.iter_mut().
MIter(t) ==
  LET c == mgr.t[t] IN
  /\ c.pc = "iter"
  /\ IF c.left = {} THEN mgr' = [mgr EXCEPT !.t[t].pc = "return"]
     ELSE LET i == CHOOSE i \in c.left : \A j \in c.left : i <= j
              s == mgr.reg[i]
          IN IF s = "Active"
             THEN mgr' = [mgr EXCEPT !.t[t].pc = "join", !.t[t].n = 2,
                                     !.t[t].id = i, !.t[t].left = c.left \ {i}]
             ELSE mgr' = [mgr EXCEPT !.reg[i] = "Stopped", !.t[t].left = c.left \ {i}]
  /\ MgrUnchanged

\* DataHandler::activate: the payload socket is connected, then the relays
\* are started.
MConnect(t) ==
  /\ mgr.t[t].pc = "connect"
  /\ \E ok \in BOOLEAN :
       mgr' = [mgr EXCEPT !.reg[mgr.t[t].id] = IF ok THEN "Active" ELSE @,
                          !.t[t].pc = "return"]
  /\ MgrUnchanged

\* DataHandler::stop: Relay::stop joins the thread of one relay.
MJoin(t) ==
  LET c == mgr.t[t] IN
  /\ c.pc = "join"
  /\ mgr' = IF c.n > 1 THEN [mgr EXCEPT !.t[t].n = c.n - 1]
            ELSE [mgr EXCEPT !.reg[c.id] = "Stopped", !.t[t].n = 0,
                             !.t[t].pc = IF c.op = "stop_all" THEN "iter" ELSE "return"]
  /\ MgrUnchanged

\* DataHandler::get_stats: Relay::get_stats waits for the answer of one relay.
MStatsWait(t) ==
  LET c == mgr.t[t] IN
  /\ c.pc = "stats_wait"
  /\ mgr' = IF c.n > 1 THEN [mgr EXCEPT !.t[t].n = c.n - 1]
            ELSE [mgr EXCEPT !.t[t].n = 0, !.t[t].pc = "return"]
  /\ MgrUnchanged

\* The function returns and its guard is dropped.
MReturn(t) ==
  /\ mgr.t[t].pc = "return"
  /\ mgr' = [mgr EXCEPT !.lock = 0, !.t[t] = MIdle]
  /\ MgrUnchanged

MgrNext ==
  \E t \in MThreads :
    \/ MCall(t)
    \/ MLock(t)
    \/ MBody(t)
    \/ MIter(t)
    \/ MConnect(t)
    \/ MJoin(t)
    \/ MStatsWait(t)
    \/ MReturn(t)

MgrSpec == MgrInit /\ [][MgrNext]_vars

\* ------------------------------------------------- statistics of a handler
\* A DataHandler whose two relay threads have counted some reads and writes:
\* get_stats and stop of tcsspecial (dh.rs), statistics and stop of tcspecial
\* (dh.rs), applied to the counters of the relays.

MaxReads == 2

\* Statistics::new
Statistics_new ==
  [bytes_received |-> 0, reads_completed |-> 0, reads_failed |-> 0,
   bytes_sent |-> 0, writes_completed |-> 0, writes_failed |-> 0]

\* The counters of a relay thread after r reads of two bytes each, of which
\* w were written on and the others failed to be written, and e failed reads.
RelayStats ==
  {[bytes_received |-> rw[1] + rw[1], reads_completed |-> rw[1], reads_failed |-> e,
    bytes_sent |-> rw[2] + rw[2], writes_completed |-> rw[2],
    writes_failed |-> rw[1] - rw[2]] :
     rw \in {p \in (0..MaxReads) \X (0..MaxReads) : p[2] <= p[1]}, e \in {0, 1}}

\* self.stats with the read counters of relay r added.
AddReads(stats, r) ==
  [stats EXCEPT !.bytes_received = @ + r.bytes_received,
                !.reads_completed = @ + r.reads_completed,
                !.reads_failed = @ + r.reads_failed]

\* self.stats with the write counters of relay r added.
AddWrites(stats, r) ==
  [stats EXCEPT !.bytes_sent = @ + r.bytes_sent,
                !.writes_completed = @ + r.writes_completed,
                !.writes_failed = @ + r.writes_failed]

\* tcsspecial DataHandler::get_stats: the write counters of the
\* ground-to-payload relay and the read counters of the payload-to-ground
\* relay are added to a copy of self.stats.
get_stats_counters(h) ==
  IF h.relays THEN AddReads(AddWrites(h.own, h.g2p), h.p2g) ELSE h.own

\* tcspecial DataHandler::statistics: a copy of self.stats.
statistics(h) == h.own

\* tcsspecial DataHandler::stop: the relays are stopped and dropped;
\* self.stats is not written.
stop_counters(h) == [h EXCEPT !.relays = FALSE, !.state = "Stopped"]

\* tcspecial DataHandler::stop: the read counters of the ground-to-payload
\* relay and the write counters of the payload-to-ground relay are added to
\* self.stats.
tcspecial_stop_counters(h) ==
  [h EXCEPT !.own = AddWrites(AddReads(h.own, h.g2p), h.p2g),
            !.relays = FALSE, !.state = "Stopped"]

\* An Active handler of the given crate and the counters of its relays.
\* The largest u64, in 16-bit limbs, lowest first.
U64_MAX == <<Limb - 1, Limb - 1, Limb - 1, Limb - 1>>

\* `a += b` on u64 counters: the sum modulo 2^64 where the build has no
\* overflow checks (release), a panic of the thread where it has (debug).
u64_add_assign(a, b, build) ==
  LET s == usize_add(a, b)
  IN  IF usize_lt(s, a) /\ build = "debug"
        THEN [value |-> a, panicked |-> TRUE]
        ELSE [value |-> s, panicked |-> FALSE]

\* A Conduit thread whose every read so far returned one byte, `start` of
\* them, in a build with or without overflow checks.
ConduitThread(start, build) ==
  [build |-> build, bytes_received |-> start, reads_completed |-> start,
   panicked |-> FALSE, reads |-> 0]

StatsHandler(crate, g2p, p2g, thr) ==
  [built |-> TRUE, crate |-> crate, state |-> "Active", relays |-> TRUE,
   own |-> Statistics_new, g2p |-> g2p, p2g |-> p2g,
   thr |-> thr,                   \* the u64 counters of one Conduit thread
   snap |-> None,                 \* the Statistics the last query returned
   hPrev |-> None]                \* history: what the last query before the stop returned

StInit ==
  /\ CIOff
  /\ bsend = NotBuilt
  /\ cdt = NotBuilt
  /\ fdt = NotBuilt
  /\ codec = NotBuilt
  /\ mgr = NotBuilt
  /\ gcl = NotBuilt
  /\ \E crate \in Impls : \E g2p \in RelayStats : \E p2g \in RelayStats :
     \E start \in {usize(0), usize_sub(U64_MAX, usize(1))} :
     \E build \in {"debug", "release"} :
       sdh = StatsHandler(crate, g2p, p2g, ConduitThread(start, build))

StUnchanged == UNCHANGED <<civars, bsend, cdt, fdt, codec, mgr, gcl>>

\* The statistics of the handler are queried.
StGetStats ==
  /\ sdh.snap = None
  /\ sdh' = [sdh EXCEPT !.snap = IF sdh.crate = "tcsspecial"
                                 THEN Some(get_stats_counters(sdh))
                                 ELSE Some(statistics(sdh))]
  /\ StUnchanged

\* The handler is stopped.
StStop ==
  /\ sdh.state = "Active"
  /\ sdh' = IF sdh.crate = "tcsspecial"
            THEN [stop_counters(sdh) EXCEPT !.snap = None, !.hPrev = sdh.snap]
            ELSE [tcspecial_stop_counters(sdh) EXCEPT !.snap = None, !.hPrev = sdh.snap]
  /\ StUnchanged

\* The Ok(n) arm of the Conduit thread's read: stats.bytes_received += n as
\* u64, then stats.reads_completed += 1.  A panic ends the thread.
StRelayRead ==
  /\ sdh.relays /\ ~sdh.thr.panicked /\ sdh.thr.reads < MaxReads
  /\ \E n \in 1..2 :
       LET b == u64_add_assign(sdh.thr.bytes_received, usize(n), sdh.thr.build)
           c == u64_add_assign(sdh.thr.reads_completed, usize(1), sdh.thr.build)
       IN  sdh' = IF b.panicked
                    THEN [sdh EXCEPT !.thr.panicked = TRUE, !.thr.reads = @ + 1]
                    ELSE [sdh EXCEPT !.thr.bytes_received = b.value,
                                     !.thr.reads_completed = c.value,
                                     !.thr.panicked = c.panicked,
                                     !.thr.reads = @ + 1]
  /\ StUnchanged

StNext == StGetStats \/ StStop \/ StRelayRead

StatsSpec == StInit /\ [][StNext]_vars

\* --------------------------------------------------------- the ground client
\* tcsmoc client.rs over a tcslib UdpConnection: the client numbers its
\* commands, sends each as one datagram and takes the next datagram that
\* arrives on its socket as the response.  The spacecraft answers a command
\* with a telemetry of the same kind and sequence number; the link may lose a
\* datagram or delay it past the client's timeout.
MaxCalls == 3
ClientCommands == {"Ping", "StopDH"}

\* TcsClient::new: sequence numbers start at 1.
TcsClient_new ==
  [built |-> TRUE,
   sequence |-> 1,       \* TcsClient.sequence
   pc |-> "idle",        \* "idle", or "receive" inside send_command
   cmd |-> None,         \* the command of the call in progress or last made
   up |-> {},            \* commands on their way to the spacecraft
   down |-> {},          \* datagrams waiting on the client's socket
   beacons |-> 0,        \* beacons sent so far
   ret |-> None]         \* what the last call returned

GcInit ==
  /\ CIOff
  /\ bsend = NotBuilt
  /\ cdt = NotBuilt
  /\ fdt = NotBuilt
  /\ codec = NotBuilt
  /\ mgr = NotBuilt
  /\ sdh = NotBuilt
  /\ gcl = TcsClient_new

GcUnchanged == UNCHANGED <<civars, bsend, cdt, fdt, codec, mgr, sdh>>

\* ping / stop_dh up to the receive: next_sequence, then send_command sends
\* the command with connection.send.
send_command(k) ==
  /\ gcl.built /\ gcl.pc = "idle" /\ gcl.sequence <= MaxCalls
  /\ LET c == [kind |-> k, seq |-> gcl.sequence]
     IN  gcl' = [gcl EXCEPT !.sequence = @ + 1, !.pc = "receive",
                            !.cmd = Some(c), !.up = @ \cup {c}, !.ret = None]
  /\ GcUnchanged

\* The spacecraft's handle_* for command c: a telemetry of the same kind with
\* cmd.sequence is sent to the client.
handle_command(c) ==
  /\ gcl.built /\ c \in gcl.up
  /\ gcl' = [gcl EXCEPT !.up = @ \ {c}, !.down = @ \cup {c}]
  /\ GcUnchanged

\* The spacecraft's send_beacon: a Beacon arrives on the client's socket.
send_beacon ==
  /\ gcl.built /\ gcl.beacons < 1
  /\ gcl' = [gcl EXCEPT !.beacons = @ + 1,
                        !.down = @ \cup {[kind |-> "Beacon", seq |-> 0]}]
  /\ GcUnchanged

\* A datagram is lost on the link, in either direction.
NetLose ==
  /\ gcl.built
  /\ \/ \E c \in gcl.up : gcl' = [gcl EXCEPT !.up = @ \ {c}]
     \/ \E t \in gcl.down : gcl' = [gcl EXCEPT !.down = @ \ {t}]
  /\ GcUnchanged

\* connection.receive_timeout returns a datagram: ping / stop_dh return it
\* when its kind is the command's kind, Err(Protocol) otherwise.
receive_timeout ==
  /\ gcl.built /\ gcl.pc = "receive"
  /\ \E t \in gcl.down :
       gcl' = [gcl EXCEPT !.pc = "idle", !.down = @ \ {t},
                          !.ret = IF t.kind = Unwrap(gcl.cmd).kind
                                    THEN Some([ok |-> TRUE, tlm |-> t])
                                    ELSE Some([ok |-> FALSE])]
  /\ GcUnchanged

\* connection.receive_timeout times out: the call returns Err.
receive_timed_out ==
  /\ gcl.built /\ gcl.pc = "receive"
  /\ gcl' = [gcl EXCEPT !.pc = "idle", !.ret = Some([ok |-> FALSE])]
  /\ GcUnchanged

GcNext ==
  \/ \E k \in ClientCommands : send_command(k)
  \/ \E k \in ClientCommands : \E s \in 1..MaxCalls :
       handle_command([kind |-> k, seq |-> s])
  \/ send_beacon
  \/ NetLose
  \/ receive_timeout
  \/ receive_timed_out

ClientSpec == GcInit /\ [][GcNext]_vars

\* ------------------------------------------------------------------- claims
\* A step that runs one iteration of the main loop.
IterStep == pc = "recv" /\ pc' # "recv"
\* The iteration recorded in x received a datagram that decoded to a command.
HasCmd(x) == x.dgram.kind = "cmd"
Cmd(x) == x.dgram.cmd
Reply(x) == x.sent[1].tlm
\* A step that processes a command of the given type.
CmdStep(type) == IterStep /\ HasCmd(io') /\ Cmd(io').type = type
\* A datagram that does not decode to a command.
Undecodable(x) == x.dgram.kind \in {"garbage", "tlm", "empty"}
\* The status codes of the two crates for the same outcomes.
NotArmedCode == IF impl = "tcsspecial" THEN "RestartNotArmed" ELSE "NotArmed"
KeyMismatchCode == IF impl = "tcsspecial" THEN "InvalidArmKey" ELSE "InvalidParameter"
\* The Restart handler of the running crate applied to the fields self.
RestartOn(self, key, t) ==
  IF impl = "tcsspecial"
    THEN handle_restart(self, [type |-> "Restart", seq |-> 1, arm_key |-> key], t)
    ELSE tcspecial_process_command(
           self, [type |-> "Restart", seq |-> 1, arm_key |-> key], t, EnvOk,
           dh_configs)
\* The error codes a Failure reply of tcsspecial can carry.
ErrorCodes == {"IoError", "InvalidCommand", "DHNotFound", "DHAlreadyExists",
               "InvalidConfiguration", "ResourceAllocationFailed", "Unknown"}

C2_DecodeFailureDropped ==
  [][(IterStep /\ Undecodable(io')) =>
       /\ io'.sent = <<>>
       /\ arm_state' = arm_state
       /\ handlers' = handlers
       /\ beacon_interval' = beacon_interval
       /\ running' = running
       /\ pc' = "loop"]_vars

\* C3: a Restart(key) clears running and replies Success exactly when
\* arm_state is present, its key equals key and now - arm_instant <= 60 (the
\* boundary included), and then arm_state is cleared; no other command and no
\* other Restart clears running.
C3_RestartIffArmedKeyWindow ==
  [][(IterStep /\ HasCmd(io')) =>
       LET c == Cmd(io')
           ok == /\ c.type = "Restart"
                 /\ IsSome(arm_state)
                 /\ Unwrap(arm_state).key = c.arm_key
                 /\ now - Unwrap(arm_state).at <= 60
       IN  /\ ok => /\ ~running'
                    /\ Reply(io').status = "Success"
                    /\ arm_state' = None
           /\ ~ok => /\ running' = running
                     /\ c.type = "Restart" => Reply(io').status # "Success"]_vars

\* C4: a Restart whose key differs from the stored one, inside the window,
\* replies InvalidArmKey, leaves arm_state (key and instant) and running as
\* they were, and a following Restart with the stored key inside the window
\* succeeds.
C4_MismatchKeepsArm ==
  [][(impl = "tcsspecial" /\ CmdStep("Restart")
        /\ IsSome(arm_state)
        /\ now - Unwrap(arm_state).at <= ARM_WINDOW_SECS
        /\ Unwrap(arm_state).key # Cmd(io').arm_key) =>
       /\ Reply(io').status = "InvalidArmKey"
       /\ arm_state' = arm_state
       /\ running' = running
       /\ \A t \in now..MaxTime :
            t - Unwrap(arm_state).at <= ARM_WINDOW_SECS =>
              LET r == RestartOn(Self', Unwrap(arm_state).key, t)
              IN  r.tlm.status = "Success" /\ ~r.self.running]_vars

C4_Witness ==
  /\ impl = "tcsspecial" /\ HasCmd(io) /\ Cmd(io).type = "Restart"
  /\ Reply(io).status = "InvalidArmKey"
  /\ IsSome(arm_state) /\ Unwrap(arm_state).key # Cmd(io).arm_key
  /\ now - Unwrap(arm_state).at = ARM_WINDOW_SECS
  /\ running

\* C5: a Restart more than 60 s after the last accepted RestartArm replies
\* ArmWindowExpired and clears arm_state whatever its key; running is left as
\* it was, and the next Restart without a new RestartArm replies
\* RestartNotArmed.
C5_ExpiredClears ==
  [][(impl = "tcsspecial" /\ CmdStep("Restart")
        /\ IsSome(hArmedAt) /\ now - Unwrap(hArmedAt) > 60) =>
       /\ Reply(io').status = "ArmWindowExpired"
       /\ arm_state' = None
       /\ running' = running
       /\ \A k \in ArmKeys : \A t \in now..MaxTime :
            LET r == RestartOn(Self', k, t)
            IN  r.tlm.status = "RestartNotArmed" /\ r.self = Self']_vars

C5_Witness ==
  /\ impl = "tcsspecial" /\ HasCmd(io) /\ Cmd(io).type = "Restart"
  /\ Reply(io).status = "ArmWindowExpired"
  /\ arm_state = None /\ running /\ now = 61

\* C6: a Restart while arm_state is absent replies RestartNotArmed and changes
\* nothing: arm_state stays absent and running is left as it was.
C6_UnarmedRestart ==
  [][(CmdStep("Restart") /\ arm_state = None) =>
       /\ Reply(io').status = NotArmedCode
       /\ arm_state' = None
       /\ running' = running
       /\ handlers' = handlers
       /\ beacon_interval' = beacon_interval]_vars

C6_Witness ==
  /\ HasCmd(io) /\ Cmd(io).type = "Restart"
  /\ Reply(io).status = NotArmedCode
  /\ arm_state = None /\ running /\ pc = "loop"

C8_AsStated ==
  impl = "tcsspecial" =>
    (IsSome(arm_state) <=>
       /\ hSinceAny
       /\ IsSome(hArmedAt)
       /\ now - Unwrap(hArmedAt) <= ARM_WINDOW_SECS)

\* C8: arm_state is present iff a RestartArm has been accepted since the last
\* Restart that was answered Success or ArmWindowExpired; it then holds the
\* instant of the last accepted RestartArm.
C8_ArmPresence ==
  impl = "tcsspecial" =>
    /\ IsSome(arm_state) <=> IsSome(hArmedAt)
    /\ IsSome(arm_state) => Unwrap(arm_state).at = Unwrap(hArmedAt)

C8_Witness ==
  /\ impl = "tcsspecial" /\ HasCmd(io) /\ Cmd(io).type = "Restart"
  /\ Reply(io).status = "InvalidArmKey"
  /\ IsSome(arm_state) /\ IsSome(hArmedAt) /\ ~hSinceAny

\* C9: StartDH is answered Success only if the DH with that id is then in the
\* registry, Active, with both relays created and started; when creation
\* succeeds and activation fails the reply is a Failure with an error code.
C9_SuccessMeansActive ==
  [][CmdStep("StartDH") =>
       LET id == Cmd(io').dh_id
       IN  /\ Reply(io').status = "Success" =>
                /\ id \in DOMAIN handlers'
                /\ handlers'[id].state = "Active"
                /\ handlers'[id].ground_to_payload # "None"
                /\ handlers'[id].payload_to_ground # "None"
           /\ (id \notin DOMAIN handlers /\ id \in DOMAIN handlers'
                 /\ handlers'[id].state # "Active") =>
                Reply(io').status \in ErrorCodes]_vars

\* C10: creating a DH whose id is registered fails with DHAlreadyExists and
\* leaves the registry as it was; every StartDH for a registered id is
\* answered DHAlreadyExists whatever the state of that DH.
C10_DuplicateCreate ==
  [][(impl = "tcsspecial" /\ CmdStep("StartDH")
        /\ Cmd(io').dh_id \in DOMAIN handlers) =>
       /\ Reply(io').status = "DHAlreadyExists"
       /\ handlers' = handlers
       /\ \A k \in DHKinds : \A env \in StartEnvs :
            LET c == create_dh(handlers', Cmd(io').dh_id, k.dh_type, k.name,
                               DHConfig_stream, env)
            IN  /\ c.err = ErrCommand("DHAlreadyExists")
                /\ c.handlers = handlers]_vars

C10_Witness ==
  /\ impl = "tcsspecial" /\ HasCmd(io) /\ Cmd(io).type = "StartDH"
  /\ Reply(io).status = "DHAlreadyExists"
  /\ Cmd(io).dh_id \in DOMAIN handlers
  /\ handlers[Cmd(io).dh_id].state = "Stopped"

C12_AbsentIdNotFound ==
  impl = "tcsspecial" =>
    /\ \A id \in DHIds \ DOMAIN handlers :
         /\ \A env \in StartEnvs \cup StopEnvs :
              /\ activate_dh(handlers, id, env)
                   = [err |-> ErrCommand("DHNotFound"), handlers |-> handlers]
              /\ stop_dh(handlers, id, env)
                   = [err |-> ErrCommand("DHNotFound"), handlers |-> handlers]
         /\ get_dh_stats(handlers, id) = ErrCommand("DHNotFound")
         /\ \A q \in Seqs :
              LET r == handle_query_dh(Self, [type |-> "QueryDH", seq |-> q,
                                              dh_id |-> id])
              IN  /\ r.tlm = QueryTlm(q, "DHNotFound", None)
                  /\ r.self = Self
    /\ (HasCmd(io) /\ Cmd(io).type = "QueryDH"
          /\ Cmd(io).dh_id \notin DOMAIN handlers) =>
         (Reply(io).status = "DHNotFound" /\ Reply(io).stats = None)

C12_Witness ==
  /\ impl = "tcsspecial" /\ HasCmd(io) /\ Cmd(io).type = "QueryDH"
  /\ Cmd(io).dh_id \notin DOMAIN handlers
  /\ handlers # EmptyMap
  /\ Reply(io).status = "DHNotFound" /\ Reply(io).stats = None

\* C13: once create_dh(id) has succeeded the id stays registered and
\* get_dh_stats(id) succeeds whatever commands follow; on a Stopped handler
\* stop_dh returns Ok and changes nothing.
C13_StatsWhileRegistered ==
  [][impl = "tcsspecial" =>
       \A id \in DOMAIN handlers :
         /\ id \in DOMAIN handlers'
         /\ get_dh_stats(handlers, id) = NoErr
         /\ get_dh_stats(handlers', id) = NoErr
         /\ (CmdStep("QueryDH") /\ Cmd(io').dh_id = id) =>
              (Reply(io').status = "Success" /\ IsSome(Reply(io').stats))
         /\ handlers[id].state = "Stopped" =>
              \A env \in StopEnvs :
                stop_dh(handlers, id, env) = [err |-> NoErr, handlers |-> handlers]]_vars

C13_Witness ==
  /\ impl = "tcsspecial" /\ HasCmd(io) /\ Cmd(io).type = "QueryDH"
  /\ Reply(io).status = "Success"
  /\ Cmd(io).dh_id \in DOMAIN handlers
  /\ handlers[Cmd(io).dh_id].state = "Created"
  /\ handlers[Cmd(io).dh_id].oc_socket = "Some"

\* A step of the DataHandler API that calls fn on handler id.
CallStep(fn, id) ==
  io'.dgram.kind = "call" /\ io'.dgram.fn = fn /\ io'.dgram.id = id
\* DataHandler::stop of the running crate, with its result.
StopOf(dh, env) ==
  IF impl = "tcsspecial" THEN stop(dh, env)
  ELSE [err |-> NoErr, dh |-> tcspecial_stop(dh)]
StopSyscallsOf(dh, env) ==
  IF impl = "tcsspecial" THEN stop_syscalls(dh, env)
  ELSE tcspecial_stop_syscalls(dh)

\* C14: the state of a DataHandler changes only Created->Active (by
\* activate), Active->Stopped and Created->Stopped (by stop); a Stopped
\* handler stays Stopped, and activate on a handler that is not Created
\* fails and leaves the handler as it was.
C14_StateTransitions ==
  [][\A id \in DOMAIN handlers :
       LET old == handlers[id].state
           new == handlers'[id].state
       IN  /\ id \in DOMAIN handlers'
           /\ \/ new = old
              \/ old = "Created" /\ new = "Active" /\ CallStep("activate", id)
              \/ old = "Active" /\ new = "Stopped" /\ CallStep("stop", id)
              \/ old = "Created" /\ new = "Stopped" /\ CallStep("stop", id)
           /\ (CallStep("activate", id) /\ old # "Created") =>
                (io'.dgram.err # NoErr /\ handlers'[id] = handlers[id])]_vars

C14_Witness ==
  /\ io.dgram.kind = "call" /\ io.dgram.fn = "activate"
  /\ io.dgram.err # NoErr
  /\ io.dgram.id \in DOMAIN handlers
  /\ handlers[io.dgram.id].state = "Stopped"

\* C15: a handler that is Active has both relays, running; a handler that is
\* Created or Stopped has neither; also after a stop in which a join failed.
C15_RelaysIffActive ==
  \A id \in DOMAIN handlers :
    LET dh == handlers[id]
    IN  /\ dh.state = "Active" =>
             (dh.ground_to_payload = "Some" /\ dh.payload_to_ground = "Some")
        /\ dh.state \in {"Created", "Stopped"} =>
             (dh.ground_to_payload = "None" /\ dh.payload_to_ground = "None")

\* C16: stop called twice leaves the handler as stop called once does, and
\* stop on a Stopped handler returns Ok without a write to the command pipe,
\* a join or a close.
C16_StopIdempotent ==
  \A id \in DOMAIN handlers : \A e1 \in StopEnvs : \A e2 \in StopEnvs :
    LET once == StopOf(handlers[id], e1)
        twice == StopOf(once.dh, e2)
    IN  /\ twice.dh = once.dh
        /\ handlers[id].state = "Stopped" =>
             /\ once = [err |-> NoErr, dh |-> handlers[id]]
             /\ StopSyscallsOf(handlers[id], e1) = <<>>

\* C17: when activate fails the handler is still Created, has no relay and
\* holds exactly the resources it held before the call.
C17_FailedActivateReleases ==
  [][\A id \in DOMAIN handlers :
       (impl = "tcsspecial" /\ CallStep("activate", id)
          /\ handlers[id].state = "Created" /\ io'.dgram.err # NoErr) =>
         /\ handlers'[id].state = "Created"
         /\ handlers'[id].ground_to_payload = "None"
         /\ handlers'[id].payload_to_ground = "None"
         /\ handlers'[id].oc_socket = handlers[id].oc_socket
         /\ handlers'[id].payload_fd = handlers[id].payload_fd
         /\ handlers'[id].cmd_pipe = handlers[id].cmd_pipe]_vars

\* C18: the registry never holds more than max_data_handlers entries; when
\* it holds exactly that many, create_dh with a new id fails with
\* ResourceAllocationFailed and leaves the registry as it is.
C18_RegistryBounded ==
  impl = "tcsspecial" =>
    /\ Cardinality(DOMAIN handlers) <= MaxHandlers
    /\ Cardinality(DOMAIN handlers) = MaxHandlers =>
         \A id \in DHIds \ DOMAIN handlers : \A k \in DHKinds : \A env \in StartEnvs :
           LET c == create_dh(handlers, id, k.dh_type, k.name, DHConfig_stream, env)
               r == handle_start_dh(Self, [type |-> "StartDH", seq |-> 1,
                                           dh_id |-> id, dh_type |-> k.dh_type,
                                           name |-> k.name], "oc1", env)
           IN  /\ c.err = ErrKind("ResourceAllocation")
               /\ to_error_code(c.err) = "ResourceAllocationFailed"
               /\ c.handlers = handlers
               /\ r.tlm.status = "ResourceAllocationFailed"
               /\ r.self = Self

C18_Witness ==
  /\ impl = "tcsspecial" /\ HasCmd(io) /\ Cmd(io).type = "StartDH"
  /\ Reply(io).status = "ResourceAllocationFailed"
  /\ Cardinality(DOMAIN handlers) = MaxHandlers
  /\ Cmd(io).dh_id \notin DOMAIN handlers

\* C19: a Config command of tcsspecial whose beacon_interval is present and
\* non-zero is answered Success and a beacon is emitted in the same loop
\* iteration, without waiting for last_beacon + interval.
C19_ConfigFiresBeacon ==
  [][(/\ impl = "tcsspecial" /\ CmdStep("Config") /\ pc' = "loop"
      /\ IsSome(Cmd(io').beacon_interval)
      /\ Unwrap(Cmd(io').beacon_interval) # 0)
       => (Reply(io').status = "Success" /\ io'.beacon)]_vars

\* C20: in tcsspecial, while the configured beacon interval is 0 no loop
\* iteration emits a beacon, and the iteration whose Config replaces the
\* interval 0 by a positive one emits a beacon.
C20_ZeroIntervalSilent ==
  [][(impl = "tcsspecial" /\ IterStep /\ pc' = "loop")
       => /\ config_beacon_interval' = 0 => ~io'.beacon
          /\ (config_beacon_interval = 0 /\ config_beacon_interval' > 0)
               => io'.beacon]_vars

\* C21: in every interleaving of set_interval(new), new > 0, with the beacon
\* worker, the worker does not wait out the old deadline (once set_interval
\* has returned, a worker still waiting has been notified or its timeout has
\* passed: no wake-up is lost), and the deadline the worker computes after
\* the beacon that answers the call is now + an interval stored by that call
\* or by a later one, never the interval from before the call.
C21_SetIntervalFiresAtOnce ==
  /\ [](bsend.built /\ bsend.hPending /\ bsend.spc = "idle" /\ bsend.wpc = "wait"
          => bsend.notified \/ bsend.wake_at <= bsend.clock)
  /\ [][(/\ bsend.built /\ bsend.hAnswering
         /\ bsend.wpc = "set_exp" /\ bsend'.wpc = "lock")
          => /\ bsend'.expiration = bsend.clock + bsend.interval
                \/ bsend.hGen > bsend.hAnsGen
             /\ bsend'.expiration = bsend.clock + bsend.local
             /\ bsend.hReadGen >= bsend.hAnsGen
             /\ bsend.hAnsGen >= 1]_vars

\* The worker has computed the deadline after a beacon that answered a
\* set_interval which began between the worker's send and its recomputation
\* of the deadline, with an interval that differs from the old one.
C21_Witness ==
  /\ bsend.built /\ bsend.wpc = "lock" /\ bsend.hAnsGen >= 1
  /\ bsend.hAnsAt \in {"read_interval", "set_exp"}
  /\ bsend.hReadGen >= bsend.hAnsGen
  /\ bsend.expiration = bsend.clock + bsend.interval
  /\ bsend.hPending = FALSE

\* C22: whenever a Conduit thread is not in the middle of relaying a chunk
\* and its writer has reported no error, the bytes its writer has accepted
\* are exactly the bytes its reader has returned, in the same order: a
\* partial write or a WouldBlock loses nothing.
C22_BytesPreserved ==
  cdt.built =>
    \A d \in Dirs :
      (cdt.tpc[d] # "io_write" /\ ~cdt.hWriteErr[d]) => cdt.out[d] = cdt.hRead[d]

\* C23: once DataHandler::stop has begun to stop the Conduits it is never
\* blocked for ever: until it has returned, some thread can take a step.
C23_StopTerminates ==
  (cdt.built /\ cdt.ctl # "active") => (cdt.ctl = "done" \/ ENABLED CdNext)

\* C24: no read from or write to a Conduit's data endpoints completes after
\* Conduit::stop has cleared its running flag and written its stop byte.
C24_NoIoAfterStop ==
  cdt.built => \A d \in Dirs : ~cdt.hLate[d]

\* C25: no descriptor that was opened as the OC or the payload descriptor of
\* a DataHandler is closed while the relay threads of that handler run.
C25_CloseAfterJoin ==
  fdt.built => ~fdt.hClosedInUse

\* C26: a loop iteration whose recv_from fails with an I/O error, or whose
\* reply cannot be sent, does not end run(): the loop goes on to its next
\* iteration.
C26_IoErrorsSurvived ==
  [][(/\ IterStep
      /\ \/ io'.dgram.kind = "ioerr"
         \/ (io'.sent # <<>> /\ ~io'.sent[1].ok))
       => pc' = "loop"]_vars

C28_ShutdownStopsAll ==
  (impl = "tcsspecial" /\ ~running /\ pc \in {"done", "failed"}) =>
     \A i \in DOMAIN handlers :
        /\ handlers[i].state # "Active"
        /\ handlers[i].ground_to_payload = "None"
        /\ handlers[i].payload_to_ground = "None"

\* C29: no thread is connecting the payload socket, joining a relay thread
\* or waiting for a relay's statistics while it holds the DHManager mutex.
C29_NoBlockingUnderLock ==
  mgr.built => \A t \in MThreads : mgr.t[t].pc \in BlockingPcs => mgr.lock # t

C34_StopCompletesOnJoinFailure ==
  [][\A id \in DOMAIN handlers :
       (CallStep("stop", id) /\ handlers[id].state = "Active"
          /\ io'.dgram.err # NoErr) =>
         /\ handlers'[id].state = "Stopped"
         /\ handlers'[id].ground_to_payload = "None"
         /\ handlers'[id].payload_to_ground = "None"
         /\ handlers'[id].payload_fd = "None"
         /\ handlers'[id].cmd_pipe = "None"]_vars

\* C35: the payload_fd an Active handler recorded is a descriptor number that
\* is open, was opened as the payload descriptor, and belongs to that handler.
C35_PayloadFdOwned ==
  fdt.built =>
    \A i \in DHIds :
      fdt.dh[i].state = "Active" =>
        /\ fdt.dh[i].payload_fd \in FdNums
        /\ fdt.use[fdt.dh[i].payload_fd] = "payload"
        /\ fdt.who[fdt.dh[i].payload_fd] = i

\* C36: once a beacon has been sent, the worker's deadline is never later
\* than the time of the most recent beacon plus the configured interval.
C36_DeadlineBound ==
  (bsend.built /\ IsSome(bsend.hFire)) =>
     bsend.expiration <= Unwrap(bsend.hFire) + bsend.interval

\* C37: a read counted by a Conduit thread never aborts the thread and never
\* makes bytes_received or reads_completed smaller; a sum that exceeds
\* 2^64 - 1 leaves the counter at 2^64 - 1.
C37_CountersSaturate ==
  [][(sdh.built /\ sdh'.thr.reads # sdh.thr.reads) =>
       /\ ~sdh'.thr.panicked
       /\ \A c \in {"bytes_received", "reads_completed"} :
            /\ ~usize_lt(sdh'.thr[c], sdh.thr[c])
            /\ usize_lt(sdh.thr[c], sdh'.thr[c]) \/ sdh'.thr[c] = U64_MAX]_vars

\* C38: a telemetry value that a client call returns for the command it sent
\* with sequence number s has sequence number s.
C38_ReplyMatchesSeq ==
  (gcl.built /\ gcl.pc = "idle" /\ IsSome(gcl.ret) /\ Unwrap(gcl.ret).ok) =>
     Unwrap(gcl.ret).tlm.seq = Unwrap(gcl.cmd).seq

C40_IdsAreNeverReused ==
  [][impl = "tcsspecial" =>
       /\ \A id \in DOMAIN handlers :
            /\ id \in DOMAIN handlers'
            /\ handlers[id].state = "Stopped" => handlers'[id].state = "Stopped"
            /\ (CmdStep("StartDH") /\ Cmd(io').dh_id = id) =>
                 /\ Reply(io').status = "DHAlreadyExists"
                 /\ handlers'[id] = handlers[id]
       /\ (/\ CmdStep("StartDH") /\ Cmd(io').dh_id \notin DOMAIN handlers
           /\ Cardinality(DOMAIN handlers) >= MaxHandlers) =>
            /\ Reply(io').status = "ResourceAllocationFailed"
            /\ handlers' = handlers]_vars

\* The registry is full of handlers that are Stopped or were never
\* activated, and a StartDH for a new id has just been answered
\* ResourceAllocationFailed.
C40_Witness ==
  /\ impl = "tcsspecial" /\ HasCmd(io) /\ Cmd(io).type = "StartDH"
  /\ Cmd(io).dh_id \notin DOMAIN handlers
  /\ Cardinality(DOMAIN handlers) = MaxHandlers
  /\ \A id \in DOMAIN handlers : handlers[id].state \in {"Created", "Stopped"}
  /\ Len(io.sent) = 1 /\ Reply(io).status = "ResourceAllocationFailed"
====
